---- MODULE Spec2Model ----
(***************************************************************************)
(* Model of the aether-vault Rust SDK: the capability token               *)
(* (capability/capability.rs), the client session and its capability      *)
(* cache (client/client.rs) and the gateway it calls                      *)
(* (transport/transport.rs, MockTransport as the reference gateway).      *)
(*                                                                         *)
(* Time is counted in whole seconds.  Every .await of a client operation  *)
(* is a point where other tasks may run, so each operation is split into  *)
(* one action per stretch of code between two such points.                *)
(***************************************************************************)
EXTENDS Integers, Sequences, FiniteSets, TLC

\* ------------------------------------------------------------------ bounds
NumTasks == 2        \* concurrent callers of one Client
MaxOps == 3          \* capability operations started in one behaviour
MaxTicks == 1        \* clock advances in one behaviour
MaxUsesBound == 1    \* largest max_uses a request carries
MaxLockOps == 2      \* operations started in one behaviour of the lock protocol
MaxCalls == 3        \* increment_usage calls on one token
ValMaxTime == 3      \* the evaluator's inputs: instants 0..ValMaxTime + 1
ValMaxUses == 2      \* the evaluator's inputs: max_uses 0..ValMaxUses

\* --------------------------------------------------------- program constants
MinTtlSecs == 10     \* CapabilityRequest::validate, lower TTL bound
MaxTtlSecs == 86400  \* CapabilityRequest::validate, upper TTL bound (24 * 60 * 60)
SecsPerDay == 86400
EpochWeekday == 4    \* 1970-01-01 was a Thursday (0 = Sunday)

\* ------------------------------------------------------------ Option<T>
None == <<>>
Some(x) == <<x>>
IsSome(o) == o /= <<>>
Unwrap(o) == o[1]

Tasks == 1..NumTasks
\* identifiers: every request_capability may mint one
Ids == 1..MaxOps

\* ------------------------------------------------------------ token model
\* UsageLimits { max_uses, uses_per_window (reserved, not modelled), current_uses }
UsageLimits(max_uses, current_uses) ==
    [max_uses |-> max_uses, current_uses |-> current_uses]

\* TimeWindow { start, end, days_of_week }
TimeWindow(start, end, days_of_week) ==
    [start |-> start, end |-> end, days_of_week |-> days_of_week]

\* CapabilityContext; ip_constraints is not read by any modelled code
CapabilityContext(environments, services, namespaces, time_window, usage_limits) ==
    [environments |-> environments, services |-> services, namespaces |-> namespaces,
     time_window |-> time_window, usage_limits |-> usage_limits]

\* now.weekday().num_days_from_sunday()
Weekday(t) == ((t \div SecsPerDay) + EpochWeekday) % 7

\* Capability::new: issued_at = now, expires_at = now + ttl
Capability_new(id, context, ttl, t) ==
    [id |-> id, context |-> context, issued_at |-> t, expires_at |-> t + ttl]

\* Capability::new as a call that may not return: from_std is the result of
\* chrono::Duration::from_std(ttl), Some(ttl) when chrono can hold the TTL and
\* None when it cannot (Duration::MAX, say); unwrap() of the latter panics
Capability_new_call(id, context, from_std, t) ==
    IF IsSome(from_std)
    THEN [kind |-> "Ok", cap |-> Capability_new(id, context, Unwrap(from_std), t)]
    ELSE [kind |-> "panic"]

\* Capability::is_valid, the expiration check
NotExpired(cap, t) == ~(t > cap.expires_at)

\* the window check without its weekday filter
Mut_WindowOk(cap, t) ==
    IF IsSome(cap.context.time_window)
    THEN LET time_window == Unwrap(cap.context.time_window) IN
         ~(t < time_window.start \/ t > time_window.end)
    ELSE TRUE

\* Capability::is_valid, the time window check
WindowOk(cap, t) ==
    IF IsSome(cap.context.time_window)
    THEN LET time_window == Unwrap(cap.context.time_window) IN
         /\ ~(t < time_window.start \/ t > time_window.end)
         /\ IF IsSome(time_window.days_of_week)
            THEN Weekday(t) \in Unwrap(time_window.days_of_week)
            ELSE TRUE
    ELSE TRUE

\* the check with > in place of >=: a token at its limit would still be valid
Mut_UsageOk(cap) ==
    IF IsSome(cap.context.usage_limits)
    THEN LET usage_limits == Unwrap(cap.context.usage_limits) IN
         IF IsSome(usage_limits.max_uses)
         THEN ~(usage_limits.current_uses > Unwrap(usage_limits.max_uses))
         ELSE TRUE
    ELSE TRUE

\* Capability::is_valid, the usage limit check
UsageOk(cap) ==
    IF IsSome(cap.context.usage_limits)
    THEN LET usage_limits == Unwrap(cap.context.usage_limits) IN
         IF IsSome(usage_limits.max_uses)
         THEN ~(usage_limits.current_uses >= Unwrap(usage_limits.max_uses))
         ELSE TRUE
    ELSE TRUE

\* the check of the window and of the usage limit alone: the expiry is not looked at
Mut_is_valid(cap, t) == WindowOk(cap, t) /\ UsageOk(cap)

\* Capability::is_valid, with Utc::now() = t
is_valid(cap, t) == NotExpired(cap, t) /\ WindowOk(cap, t) /\ UsageOk(cap)

\* a constraint set that, when present and empty, constrains nothing
Mut_Allows(allowed, value) ==
    IF IsSome(allowed) /\ Unwrap(allowed) /= {}
    THEN value \in Unwrap(allowed)
    ELSE TRUE

\* if let Some(allowed) = &self.context.<set> { if !allowed.contains(value) { return false } }
Allows(allowed, value) ==
    IF IsSome(allowed)
    THEN value \in Unwrap(allowed)
    ELSE TRUE

\* Capability::is_valid_for_context, with Utc::now() = t
is_valid_for_context(cap, environment, service, namespace, t) ==
    IF ~is_valid(cap, t) THEN FALSE
    ELSE IF ~Allows(cap.context.environments, environment) THEN FALSE
    ELSE IF ~Allows(cap.context.services, service) THEN FALSE
    ELSE IF ~Allows(cap.context.namespaces, namespace) THEN FALSE
    ELSE TRUE

\* remaining_ttl that still answers at the expiry instant, with a zero duration
Mut_remaining_ttl(cap, t) ==
    IF t <= cap.expires_at THEN Some(cap.expires_at - t) ELSE None

\* Capability::remaining_ttl: Some(expires_at - now) while now < expires_at
remaining_ttl(cap, t) ==
    IF t < cap.expires_at THEN Some(cap.expires_at - t) ELSE None

\* increment_usage that fails as soon as the raised count reaches max_uses
Mut_increment_usage_limit(cap) ==
    IF IsSome(cap.context.usage_limits)
    THEN LET usage_limits == Unwrap(cap.context.usage_limits)
             current_uses == usage_limits.current_uses + 1
             after == [cap EXCEPT !.context.usage_limits =
                          Some([usage_limits EXCEPT !.current_uses = current_uses])]
         IN  [cap |-> after,
              ok |-> ~(IsSome(usage_limits.max_uses)
                       /\ current_uses >= Unwrap(usage_limits.max_uses))]
    ELSE [cap |-> cap, ok |-> TRUE]

\* increment_usage that refuses at the limit before counting the use
Mut_increment_usage(cap) ==
    IF IsSome(cap.context.usage_limits)
    THEN LET usage_limits == Unwrap(cap.context.usage_limits)
             current_uses == usage_limits.current_uses + 1
             after == [cap EXCEPT !.context.usage_limits =
                          Some([usage_limits EXCEPT !.current_uses = current_uses])]
         IN  IF IsSome(usage_limits.max_uses)
                /\ current_uses > Unwrap(usage_limits.max_uses)
             THEN [cap |-> cap, ok |-> FALSE]
             ELSE [cap |-> after, ok |-> TRUE]
    ELSE [cap |-> cap, ok |-> TRUE]

\* Capability::increment_usage: the token after the call and whether it returned Ok
increment_usage(cap) ==
    IF IsSome(cap.context.usage_limits)
    THEN LET usage_limits == Unwrap(cap.context.usage_limits)
             current_uses == usage_limits.current_uses + 1
             after == [cap EXCEPT !.context.usage_limits =
                          Some([usage_limits EXCEPT !.current_uses = current_uses])]
         IN  [cap |-> after,
              ok |-> ~(IsSome(usage_limits.max_uses)
                       /\ current_uses > Unwrap(usage_limits.max_uses))]
    ELSE [cap |-> cap, ok |-> TRUE]

\* validate with an exclusive upper bound
Mut_validate_bounds(ttl, target) ==
    IF ttl >= MaxTtlSecs THEN "InvalidFormat"
    ELSE IF ttl < MinTtlSecs THEN "InvalidFormat"
    ELSE IF target = "" THEN "InvalidFormat"
    ELSE "Ok"

\* validate without its check of the target
Mut_validate(ttl, target) ==
    IF ttl > MaxTtlSecs THEN "InvalidFormat"
    ELSE IF ttl < MinTtlSecs THEN "InvalidFormat"
    ELSE "Ok"

\* CapabilityRequest::validate: "Ok" or the error kind
validate(ttl, target) ==
    IF ttl > MaxTtlSecs THEN "InvalidFormat"
    ELSE IF ttl < MinTtlSecs THEN "InvalidFormat"
    ELSE IF target = "" THEN "InvalidFormat"
    ELSE "Ok"

\* ------------------------------------------------------------ JSON encoding
\* serde_json's values, as far as the token's fields need them
JNull == [j |-> "null"]
JNum(n) == [j |-> "number", v |-> n]
JStr(x) == [j |-> "string", v |-> x]
JArr(q) == [j |-> "array", v |-> q]
JObj(f) == [j |-> "object", v |-> f]

Range(q) == {q[k] : k \in DOMAIN q}

\* the elements of a HashSet in the order its iterator yields them, which is
\* not specified: one order and its reverse
SetToSeq(S, rev) ==
    LET q == CHOOSE r \in [1..Cardinality(S) -> S] : Range(r) = S
    IN  IF rev THEN [k \in 1..Cardinality(S) |-> q[Cardinality(S) + 1 - k]] ELSE q

\* Option<HashSet<_>> written with None as an empty array
Mut_SerOptionSet(o, rev) ==
    IF IsSome(o) THEN JArr(SetToSeq(Unwrap(o), rev)) ELSE JArr(<<>>)

\* Serialize for Option<HashSet<_>>: null for None, an array for Some
SerOptionSet(o, rev) ==
    IF IsSome(o) THEN JArr(SetToSeq(Unwrap(o), rev)) ELSE JNull

\* Deserialize for Option<HashSet<_>>
DeOptionSet(x) == IF x.j = "null" THEN None ELSE Some(Range(x.v))

\* Serialize for Option<u32>
SerOptionNum(o) == IF IsSome(o) THEN JNum(Unwrap(o)) ELSE JNull

DeOptionNum(x) == IF x.j = "null" THEN None ELSE Some(x.v)

\* Serialize for DateTime<Utc>: an RFC 3339 string, a date and a time of day
SerDateTime(t) == JStr([date |-> t \div SecsPerDay, time |-> t % SecsPerDay])

DeDateTime(x) == x.v.date * SecsPerDay + x.v.time

\* derived Serialize / Deserialize of TimeWindow
SerTimeWindow(w, rev) ==
    JObj([start |-> SerDateTime(w.start), end |-> SerDateTime(w.end),
          days_of_week |-> SerOptionSet(w.days_of_week, rev)])

DeTimeWindow(x) ==
    TimeWindow(DeDateTime(x.v.start), DeDateTime(x.v.end),
               DeOptionSet(x.v.days_of_week))

\* derived Serialize / Deserialize of UsageLimits
SerUsageLimits(u) ==
    JObj([max_uses |-> SerOptionNum(u.max_uses), current_uses |-> JNum(u.current_uses)])

DeUsageLimits(x) == UsageLimits(DeOptionNum(x.v.max_uses), x.v.current_uses.v)

\* derived Serialize / Deserialize of CapabilityContext
SerContext(c, rev) ==
    JObj([environments |-> SerOptionSet(c.environments, rev),
          services |-> SerOptionSet(c.services, rev),
          namespaces |-> SerOptionSet(c.namespaces, rev),
          time_window |-> IF IsSome(c.time_window)
                          THEN SerTimeWindow(Unwrap(c.time_window), rev) ELSE JNull,
          usage_limits |-> IF IsSome(c.usage_limits)
                           THEN SerUsageLimits(Unwrap(c.usage_limits)) ELSE JNull])

DeContext(x) ==
    CapabilityContext(
        DeOptionSet(x.v.environments), DeOptionSet(x.v.services),
        DeOptionSet(x.v.namespaces),
        IF x.v.time_window.j = "null" THEN None
        ELSE Some(DeTimeWindow(x.v.time_window)),
        IF x.v.usage_limits.j = "null" THEN None
        ELSE Some(DeUsageLimits(x.v.usage_limits)))

\* Capability::to_bytes: serde_json::to_vec(self)
to_bytes(cap, rev) ==
    JObj([id |-> JStr(cap.id), context |-> SerContext(cap.context, rev),
          issued_at |-> SerDateTime(cap.issued_at),
          expires_at |-> SerDateTime(cap.expires_at)])

\* Capability::from_bytes: serde_json::from_slice(data), InvalidFormat when the
\* data is not an object with the token's fields
from_bytes(data) ==
    IF data.j = "object"
       /\ DOMAIN data.v = {"id", "context", "issued_at", "expires_at"}
       /\ data.v.context.j = "object"
    THEN [kind |-> "Ok",
          cap |-> [id |-> data.v.id.v, context |-> DeContext(data.v.context),
                   issued_at |-> DeDateTime(data.v.issued_at),
                   expires_at |-> DeDateTime(data.v.expires_at)]]
    ELSE [kind |-> "InvalidFormat"]

\* ------------------------------------------------------------------ names
\* A string is the sequence of its characters.
UpperCase ==
    <<"A", "B", "C", "D", "E", "F", "G", "H", "I", "J", "K", "L", "M",
      "N", "O", "P", "Q", "R", "S", "T", "U", "V", "W", "X", "Y", "Z">>

LowerCase ==
    <<"a", "b", "c", "d", "e", "f", "g", "h", "i", "j", "k", "l", "m",
      "n", "o", "p", "q", "r", "s", "t", "u", "v", "w", "x", "y", "z">>

\* char::to_lowercase on the ASCII letters
to_lowercase_char(c) ==
    IF \E k \in DOMAIN UpperCase : UpperCase[k] = c
    THEN LowerCase[CHOOSE k \in DOMAIN UpperCase : UpperCase[k] = c]
    ELSE c

\* str::to_lowercase
to_lowercase(s) == [k \in 1..Len(s) |-> to_lowercase_char(s[k])]

\* str::starts_with
starts_with(s, prefix) ==
    Len(s) >= Len(prefix) /\ SubSeq(s, 1, Len(prefix)) = prefix

CustomPrefix == <<"c", "u", "s", "t", "o", "m", ":">>

\* the arms of Domain::parse for the fixed names
DomainNames ==
    <<<<<<"d", "a", "t", "a", "b", "a", "s", "e">>, "Database">>,
       <<<<"t", "l", "s">>, "Tls">>,
       <<<<"s", "m", "t", "p">>, "Smtp">>,
       <<<<"i", "m", "a", "p">>, "Imap">>,
       <<<<"d", "o", "c", "k", "e", "r">>, "Docker">>,
       <<<<"g", "i", "t">>, "Git">>,
       <<<<"f", "i", "l", "e", "s", "y", "s", "t", "e", "m">>, "Filesystem">>,
       <<<<"c", "l", "o", "u", "d">>, "Cloud">>,
       <<<<"a", "p", "i">>, "Api">>,
       <<<<"s", "s", "h">>, "Ssh">>>>

\* the arms of Action::parse for the fixed names
ActionNames ==
    <<<<<<"r", "e", "a", "d">>, "Read">>,
       <<<<"w", "r", "i", "t", "e">>, "Write">>,
       <<<<"d", "e", "l", "e", "t", "e">>, "Delete">>,
       <<<<"e", "x", "e", "c", "u", "t", "e">>, "Execute">>,
       <<<<"l", "i", "s", "t">>, "List">>,
       <<<<"a", "d", "m", "i", "n">>, "Admin">>,
       <<<<"c", "r", "e", "a", "t", "e">>, "Create">>,
       <<<<"u", "p", "d", "a", "t", "e">>, "Update">>>>

\* Domain::parse and Action::parse: a match on s.to_lowercase(); the custom
\* name is custom[7..] of the lowered string
parse(s, names, error) ==
    LET lowered == to_lowercase(s) IN
    IF \E k \in DOMAIN names : names[k][1] = lowered
    THEN [kind |-> "Ok",
          variant |-> names[CHOOSE k \in DOMAIN names : names[k][1] = lowered][2],
          name |-> <<>>]
    ELSE IF starts_with(lowered, CustomPrefix)
    THEN [kind |-> "Ok", variant |-> "Custom",
          name |-> SubSeq(lowered, Len(CustomPrefix) + 1, Len(lowered))]
    ELSE [kind |-> error, variant |-> "", name |-> s]

Domain_parse(s) == parse(s, DomainNames, "InvalidDomain")

Action_parse(s) == parse(s, ActionNames, "InvalidAction")

\* ----------------------------------------------------------------- errors
\* VaultError: the variant and, for a variant that wraps another error type,
\* the variant of that type
Err(kind, inner) == [kind |-> kind, inner |-> inner]

CapabilityErrors ==
    {"InvalidFormat", "Expired", "NotFound", "InvalidDomain", "InvalidAction",
     "Revoked", "ScopeMismatch"}

IdentityErrors ==
    {"InvalidToken", "TokenExpired", "MissingIdentity", "InvalidWorkload",
     "VerificationFailed"}

TransportErrors ==
    {"ConnectionFailed", "Tls", "Http", "Protocol", "InvalidEndpoint",
     "ConnectionTimeout"}

VaultErrors ==
    {Err(k, "") : k \in {"AuthenticationFailed", "AccessDenied", "Crypto", "Config",
                         "Validation", "Timeout", "RateLimit", "Server",
                         "InvalidResponse", "Internal", "Io", "Json", "Toml"}}
    \cup {Err("Capability", i) : i \in CapabilityErrors}
    \cup {Err("Identity", i) : i \in IdentityErrors}
    \cup {Err("Transport", i) : i \in TransportErrors}

\* VaultError::is_retryable
is_retryable(err) == err.kind \in {"Transport", "Timeout", "RateLimit", "Server"}

\* ---------------------------------------------------------- configuration
\* str::contains
contains(s, sub) ==
    \E k \in 0..(Len(s) - Len(sub)) : SubSeq(s, k + 1, k + Len(sub)) = sub

\* AuthConfig { method, token_file, cert_file, key_file, ca_file }
AuthConfig(method, token_file, cert_file, key_file, ca_file) ==
    [method |-> method, token_file |-> token_file, cert_file |-> cert_file,
     key_file |-> key_file, ca_file |-> ca_file]

\* Config; timeouts, retry, tls and cache are not read by validate or merge
Config(endpoint, transport, auth, level) ==
    [endpoint |-> endpoint, transport |-> transport, auth |-> auth,
     logging |-> [level |-> level]]

\* "http://localhost:8200"
DefaultEndpoint ==
    <<"h", "t", "t", "p", ":", "/", "/", "l", "o", "c", "a", "l", "h", "o",
      "s", "t", ":", "8", "2", "0", "0">>

\* Config::default() with AuthConfig::default() and LoggingConfig::default()
Config_default ==
    Config(DefaultEndpoint, "Http", AuthConfig("Token", None, None, None, None), "info")

\* Config::validate: "Ok" or the ConfigError variant
Config_validate(self) ==
    IF self.endpoint = <<>> THEN "MissingField"
    ELSE IF self.transport = "Http" /\ ~starts_with(self.endpoint, <<"h", "t", "t", "p">>)
    THEN "InvalidValue"
    ELSE IF /\ self.transport = "Unix"
            /\ (IsSome(self.auth.cert_file) \/ IsSome(self.auth.key_file))
    THEN "InvalidValue"
    ELSE IF /\ self.transport = "Mtls"
            /\ (~IsSome(self.auth.cert_file) \/ ~IsSome(self.auth.key_file))
    THEN "MissingField"
    ELSE IF self.auth.method = "Token" /\ ~IsSome(self.auth.token_file)
    THEN "MissingField"
    ELSE IF /\ self.auth.method = "Certificate"
            /\ (~IsSome(self.auth.cert_file) \/ ~IsSome(self.auth.key_file))
    THEN "MissingField"
    ELSE IF /\ self.auth.method = "None"
            /\ ~contains(self.endpoint, <<"l", "o", "c", "a", "l", "h", "o", "s", "t">>)
            /\ ~contains(self.endpoint, <<"1", "2", "7", ".", "0", ".", "0", ".", "1">>)
    THEN "InvalidValue"
    ELSE "Ok"

\* Config::merge: self after self.merge(other)
Config_merge(self, other) ==
    Config(
        IF other.endpoint /= Config_default.endpoint THEN other.endpoint
        ELSE self.endpoint,
        IF other.transport /= "Http" THEN other.transport ELSE self.transport,
        AuthConfig(
            IF other.auth.method /= "Token" THEN other.auth.method
            ELSE self.auth.method,
            IF IsSome(other.auth.token_file) THEN other.auth.token_file
            ELSE self.auth.token_file,
            IF IsSome(other.auth.cert_file) THEN other.auth.cert_file
            ELSE self.auth.cert_file,
            IF IsSome(other.auth.key_file) THEN other.auth.key_file
            ELSE self.auth.key_file,
            IF IsSome(other.auth.ca_file) THEN other.auth.ca_file
            ELSE self.auth.ca_file),
        IF other.logging.level /= "info" THEN other.logging.level
        ELSE self.logging.level)

\* the values VAULT_TRANSPORT is matched against, lowered
TransportNames ==
    <<<<<<"h", "t", "t", "p">>, "Http">>,
      <<<<"u", "n", "i", "x">>, "Unix">>,
      <<<<"m", "t", "l", "s">>, "Mtls">>>>

\* the values VAULT_AUTH_METHOD is matched against, lowered
AuthMethodNames ==
    <<<<<<"t", "o", "k", "e", "n">>, "Token">>,
      <<<<"c", "e", "r", "t", "i", "f", "i", "c", "a", "t", "e">>, "Certificate">>,
      <<<<"w", "o", "r", "k", "l", "o", "a", "d">>, "Workload">>,
      <<<<"n", "o", "n", "e">>, "None">>>>

\* the variant a name stands for, None when there is none
Named(names, s) ==
    IF \E k \in DOMAIN names : names[k][1] = to_lowercase(s)
    THEN Some(names[CHOOSE k \in DOMAIN names : names[k][1] = to_lowercase(s)][2])
    ELSE None

\* Config::from_env: env gives each variable's value, None when it is not set
from_env(env) ==
    IF IsSome(env.VAULT_TRANSPORT)
       /\ ~IsSome(Named(TransportNames, Unwrap(env.VAULT_TRANSPORT)))
    THEN [kind |-> "InvalidValue"]
    ELSE IF IsSome(env.VAULT_AUTH_METHOD)
            /\ ~IsSome(Named(AuthMethodNames, Unwrap(env.VAULT_AUTH_METHOD)))
    THEN [kind |-> "InvalidValue"]
    ELSE [kind |-> "Ok",
          config |->
            Config(
                IF IsSome(env.VAULT_ENDPOINT) THEN Unwrap(env.VAULT_ENDPOINT)
                ELSE Config_default.endpoint,
                IF IsSome(env.VAULT_TRANSPORT)
                THEN Unwrap(Named(TransportNames, Unwrap(env.VAULT_TRANSPORT)))
                ELSE Config_default.transport,
                AuthConfig(
                    IF IsSome(env.VAULT_AUTH_METHOD)
                    THEN Unwrap(Named(AuthMethodNames, Unwrap(env.VAULT_AUTH_METHOD)))
                    ELSE Config_default.auth.method,
                    env.VAULT_TOKEN_FILE, env.VAULT_CERT_FILE, env.VAULT_KEY_FILE,
                    env.VAULT_CA_FILE),
                IF IsSome(env.VAULT_LOG_LEVEL) THEN Unwrap(env.VAULT_LOG_LEVEL)
                ELSE Config_default.logging.level)]

\* Config::load_with_file: file is what from_file read
load_with_file(file, env) ==
    LET env_config == from_env(env) IN
    IF env_config.kind = "Ok"
    THEN [kind |-> "Ok", config |-> Config_merge(file, env_config.config)]
    ELSE env_config

\* ------------------------------------------------------------------ state
VARIABLES
    now,            \* Utc::now(), in seconds
    ticks,          \* clock advances so far
    identity,       \* Client.identity: Option<Identity>
    capabilities,   \* Client.capabilities: id -> Option<Capability>
    gw_caps,        \* MockTransport.capabilities: id -> Option<Capability>
    next_id,        \* the next identifier Uuid::new_v4 gives
    pc,             \* each task's position in its current operation
    call,           \* each task's current operation and its arguments
    local,          \* each task's locals: capability, cap_for_usage, refreshed_cap
    ops_left,       \* capability operations (all but set_identity) that may still start
    gw_calls,       \* gateway calls each task has made in its current operation
    base,           \* per task: the store as it would be had the task's operation not run
    done,           \* the operation that returned in the last step, if one did
    handed,         \* token values handed to callers so far
    accepted,       \* per id: access_with_capability calls that returned Ok
    disturbed,      \* per id: a refresh, revoke or close touched it since it was minted
    revoked,        \* per id: revoke_capability has removed it locally
    confirmed,      \* per id: the expires_at the last refresh put in the store, if
                    \* no revoke or close has come since
    cleared,        \* the ids that were minted when a close cleared the store
    closed,         \* a close has returned
    id_set,         \* the identity the last set_identity was given, if one was
    id_cleared,     \* a close has cleared the identity since the last set_identity
    vcap, vnow, vres, vdone, \* the evaluator's input token, instant, result
    probe,          \* the last call of is_valid_for_context: arguments, instant, result
    vlog,           \* the increment_usage calls on vcap: token before, Ok or Err
    lock_pc,        \* lock protocol: each task's operation, next step and status
    locks,          \* the two RwLocks: readers, writer and the queue of waiters
    lock_ops        \* lock protocol: operations that may still start

clock_vars == <<now, ticks>>
gateway_vars == <<gw_caps, next_id>>
count_vars ==
    <<accepted, disturbed, revoked, confirmed, cleared, closed, id_set, id_cleared>>
lock_vars == <<lock_pc, locks, lock_ops>>
eval_vars == <<vcap, vnow, vres, vdone, probe, vlog>>
\* what no client operation of the session writes
val_vars == <<eval_vars, lock_vars>>
session_vars == <<now, ticks, identity, capabilities, gw_caps, next_id, pc, call, local,
                  ops_left, gw_calls, base, done, handed, accepted, disturbed, revoked,
                  confirmed, cleared, closed, id_set, id_cleared>>
vars == <<now, ticks, identity, capabilities, gw_caps, next_id, pc, call, local,
          ops_left, gw_calls, base, done, handed, accepted, disturbed, revoked,
          confirmed, cleared, closed, id_set, id_cleared, vcap, vnow, vres, vdone,
          probe, vlog, lock_pc, locks, lock_ops>>

\* ---------------------------------------------------------------- inputs
Identities == {"alice"}
\* the <<ttl, target>> of a request: one that validates, and one for each check
\* of CapabilityRequest::validate that fails
RequestInputs ==
    {<<MinTtlSecs, "users">>, <<MaxTtlSecs + 1, "users">>, <<MinTtlSecs - 1, "users">>,
     <<MinTtlSecs, "">>}
RefreshTtls == {MinTtlSecs}
TickSteps == {MinTtlSecs + 1}

UsageChoices == {None} \cup {Some(UsageLimits(Some(m), 0)) : m \in 1..MaxUsesBound}

\* the contexts a caller asks for
RequestContexts ==
    {CapabilityContext(None, None, None, None, u) : u \in UsageChoices}

NoLocal ==
    [capability |-> None, cached_cap |-> None, cap_for_usage |-> None,
     refreshed_cap |-> None]
EmptyStore == [i \in Ids |-> None]

\* a call of operation op: its arguments and, when it was made, the instant,
\* whether an identity was set, whether its identifier had been revoked and
\* whether a close had returned
Call(op, id, ttl, target, cap) ==
    [op |-> op, id |-> id, ttl |-> ttl, target |-> target, cap |-> cap,
     had_identity |-> IsSome(identity), at |-> now,
     revoked |-> id \in Ids /\ revoked[id], after_close |-> closed]
NoCall ==
    [op |-> "none", id |-> 0, ttl |-> 0, target |-> "", cap |-> None,
     had_identity |-> FALSE, at |-> 0, revoked |-> FALSE, after_close |-> FALSE]
NoProbe == [op |-> "none", args |-> <<>>, at |-> 0, res |-> FALSE]
\* value: the tokens an Ok carries back to the caller
NoDone ==
    [call |-> NoCall, res |-> "none", value |-> {}, gw_calls |-> 0, untouched |-> TRUE]

\* the identifiers minted so far
Minted == {i \in Ids : i < next_id}

\* HashMap::remove that drops every entry, as HashMap::clear does
Mut_Remove(store, id) == [i \in Ids |-> None]

\* HashMap::insert and HashMap::remove on a store
Insert(store, id, cap) == [store EXCEPT ![id] = Some(cap)]
Remove(store, id) == [store EXCEPT ![id] = None]

\* the two locks of a Client, and a task that runs no operation
LockNames == {"capabilities", "identity"}
FreeLock == [readers |-> {}, writer |-> {}, queue |-> <<>>]
LockIdle == [op |-> "none", at |-> 0, st |-> "idle"]

\* Client::new with an empty cache and no identity, before any call
SessionInit ==
    /\ now = 0 /\ ticks = 0
    /\ identity = None
    /\ capabilities = EmptyStore
    /\ gw_caps = EmptyStore
    /\ next_id = 1
    /\ pc = [t \in Tasks |-> "idle"]
    /\ call = [t \in Tasks |-> NoCall]
    /\ local = [t \in Tasks |-> NoLocal]
    /\ gw_calls = [t \in Tasks |-> 0]
    /\ base = [t \in Tasks |-> EmptyStore]
    /\ done = NoDone
    /\ handed = {}
    /\ accepted = [i \in Ids |-> 0]
    /\ disturbed = [i \in Ids |-> FALSE]
    /\ revoked = [i \in Ids |-> FALSE]
    /\ confirmed = [i \in Ids |-> None]
    /\ cleared = {}
    /\ closed = FALSE
    /\ id_set = None
    /\ id_cleared = FALSE
    /\ lock_pc = [t \in Tasks |-> LockIdle]
    /\ locks = [l \in LockNames |-> FreeLock]
    /\ lock_ops = MaxLockOps

Init ==
    /\ SessionInit
    /\ ops_left = MaxOps
    /\ vcap = None /\ vnow = 0 /\ vres = FALSE /\ vdone = FALSE
    /\ probe = NoProbe /\ vlog = <<>>

\* ------------------------------------------------------- task bookkeeping
\* Task t enters an operation.  Tasks are interchangeable callers, so a new
\* operation is given to the lowest idle one.
Idle(t) ==
    /\ pc[t] = "idle"
    /\ \A u \in Tasks : u < t => pc[u] /= "idle"

Enter(t) ==
    /\ Idle(t)
    /\ ops_left > 0
    /\ ops_left' = ops_left - 1

\* Task t's operation (call c) returns res, carrying the tokens value, after g
\* gateway calls.  mybase is the store as it would be without the operation,
\* store the store as the step leaves it, bases what the step makes of the other
\* tasks' base.
FinishWith(t, c, res, value, g, mybase, store, bases) ==
    /\ pc' = [pc EXCEPT ![t] = "idle"]
    /\ call' = [call EXCEPT ![t] = NoCall]
    /\ local' = [local EXCEPT ![t] = NoLocal]
    /\ gw_calls' = [gw_calls EXCEPT ![t] = 0]
    /\ base' = [u \in Tasks |-> IF u = t THEN EmptyStore ELSE bases[u]]
    /\ done' = [call |-> c, res |-> res, value |-> value, gw_calls |-> g,
                untouched |-> store = mybase]

\* a return that carries no token
Finish(t, c, res, g, mybase, store, bases) ==
    FinishWith(t, c, res, {}, g, mybase, store, bases)

\* Task t's operation (call c) goes on to position p with locals l.
Continue(t, c, p, l, g, mybase, bases) ==
    /\ pc' = [pc EXCEPT ![t] = p]
    /\ call' = [call EXCEPT ![t] = c]
    /\ local' = [local EXCEPT ![t] = l]
    /\ gw_calls' = [gw_calls EXCEPT ![t] = g]
    /\ base' = [u \in Tasks |-> IF u = t THEN mybase ELSE bases[u]]
    /\ done' = NoDone

\* what a write of the store makes of every task's base
InsertBases(id, cap) == [u \in Tasks |-> Insert(base[u], id, cap)]
RemoveBases(id) == [u \in Tasks |-> Remove(base[u], id)]
ClearBases == [u \in Tasks |-> EmptyStore]

\* ------------------------------------------------------------ the clock
Tick(d) ==
    /\ ticks < MaxTicks
    /\ now' = now + d
    /\ ticks' = ticks + 1
    /\ done' = NoDone
    /\ UNCHANGED <<identity, capabilities, gateway_vars, pc, call, local, ops_left,
                   gw_calls, base, handed, count_vars, val_vars>>

\* ------------------------------------------------ Client::set_identity
set_identity(t, ident) ==
    /\ Idle(t)
    /\ identity' = Some(ident)
    /\ id_set' = Some(ident)
    /\ id_cleared' = FALSE
    /\ Finish(t, Call("set_identity", 0, 0, "", None), "Ok", 0,
              capabilities, capabilities, base)
    /\ UNCHANGED <<clock_vars, capabilities, gateway_vars, ops_left, handed, accepted,
                   disturbed, revoked, confirmed, cleared, closed, val_vars>>

\* --------------------------------------------- Client::request_capability
\* get_identity, CapabilityRequest::new and validate
RequestStart(t, target, context, ttl) ==
    /\ Enter(t)
    /\ LET c == Call("request_capability", 0, ttl, target, None) IN
       IF ~IsSome(identity)
       THEN Finish(t, c, "MissingIdentity", 0, capabilities, capabilities, base)
       ELSE IF validate(ttl, target) /= "Ok"
       THEN Finish(t, c, validate(ttl, target), 0, capabilities, capabilities, base)
       ELSE Continue(t, c, "request_gateway",
                     [NoLocal EXCEPT !.capability = Some(Capability_new(0, context, ttl, 0))],
                     0, capabilities, base)
    /\ UNCHANGED <<clock_vars, identity, capabilities, gateway_vars, handed, count_vars,
                   val_vars>>

\* transport.request_capability(&identity, &cap_request).await?
\* (MockTransport::request_capability when it succeeds)
RequestGateway(t, ok) ==
    /\ pc[t] = "request_gateway"
    /\ IF ok
       THEN /\ LET request == Unwrap(local[t].capability)
                   capability == Capability_new(next_id, request.context,
                                                call[t].ttl, now)
               IN  /\ gw_caps' = Insert(gw_caps, capability.id, capability)
                   /\ Continue(t, call[t], "request_insert",
                               [NoLocal EXCEPT !.capability = Some(capability)],
                               gw_calls[t] + 1, base[t], base)
            /\ next_id' = next_id + 1
       ELSE /\ Finish(t, call[t], "Transport", gw_calls[t] + 1, base[t], capabilities, base)
            /\ UNCHANGED gateway_vars
    /\ UNCHANGED <<clock_vars, identity, capabilities, ops_left, handed, count_vars, val_vars>>

\* caps.insert(capability.id, capability.clone()); Ok(capability)
RequestInsert(t) ==
    /\ pc[t] = "request_insert"
    /\ LET capability == Unwrap(local[t].capability) IN
       /\ capabilities' = Insert(capabilities, capability.id, capability)
       /\ handed' = handed \cup {capability}
       /\ FinishWith(t, [call[t] EXCEPT !.id = capability.id], "Ok", {capability},
                     gw_calls[t], base[t],
                     Insert(capabilities, capability.id, capability),
                     InsertBases(capability.id, capability))
    /\ UNCHANGED <<clock_vars, identity, gateway_vars, ops_left, count_vars, val_vars>>

\* ------------------------------------------ Client::access_with_capability
\* if !capability.is_valid() { return Err(Capability(Expired(..))) }
AccessStart(t, capability) ==
    /\ Enter(t)
    /\ LET c == Call("access_with_capability", capability.id, 0, "", Some(capability)) IN
       IF ~is_valid(capability, now)
       THEN Finish(t, c, "Expired", 0, capabilities, capabilities, base)
       ELSE Continue(t, c, "access_read", [NoLocal EXCEPT !.capability = Some(capability)],
                     0, capabilities, base)
    /\ UNCHANGED <<clock_vars, identity, capabilities, gateway_vars, handed, count_vars,
                   val_vars>>

\* the cache lookup when the use is counted on the stored token in place
Mut_AccessRead(t) ==
    /\ pc[t] = "access_read"
    /\ LET capability == Unwrap(local[t].capability)
           cached_cap == capabilities[capability.id]
           cap_to_use == IF IsSome(cached_cap) THEN Unwrap(cached_cap) ELSE capability
           used == increment_usage(cap_to_use)
           store == IF IsSome(cached_cap)
                    THEN Insert(capabilities, capability.id, used.cap)
                    ELSE capabilities
       IN  /\ capabilities' = store
           /\ IF used.ok
              THEN Continue(t, call[t], "access_gateway",
                            [local[t] EXCEPT !.cached_cap = cached_cap,
                                             !.cap_for_usage = Some(used.cap)],
                            gw_calls[t], base[t], base)
              ELSE Finish(t, call[t], "ScopeMismatch", gw_calls[t], base[t], store, base)
    /\ UNCHANGED <<clock_vars, identity, gateway_vars, ops_left, handed,
                   count_vars, val_vars>>

\* cached_cap = caps.get(&capability.id).cloned() under the read lock;
\* cap_to_use = cached_cap.unwrap_or_else(|| capability.clone());
\* cap_for_usage = cap_to_use.clone(); cap_for_usage.increment_usage()?
AccessRead(t) ==
    /\ pc[t] = "access_read"
    /\ LET capability == Unwrap(local[t].capability)
           cached_cap == capabilities[capability.id]
           cap_to_use == IF IsSome(cached_cap) THEN Unwrap(cached_cap) ELSE capability
           used == increment_usage(cap_to_use)
       IN  IF used.ok
           THEN Continue(t, call[t], "access_gateway",
                         [local[t] EXCEPT !.cached_cap = cached_cap,
                                          !.cap_for_usage = Some(used.cap)],
                         gw_calls[t], base[t], base)
           ELSE Finish(t, call[t], "ScopeMismatch", gw_calls[t], base[t], capabilities, base)
    /\ UNCHANGED <<clock_vars, identity, capabilities, gateway_vars, ops_left, handed,
                   count_vars, val_vars>>

\* the gateway call with the cache updated before its result is known
Mut_AccessGateway(t, ok) ==
    /\ pc[t] = "access_gateway"
    /\ LET cap_for_usage == Unwrap(local[t].cap_for_usage)
           store == Insert(capabilities, call[t].id, cap_for_usage)
       IN  /\ capabilities' = store
           /\ IF ok
              THEN Continue(t, call[t], "access_insert", local[t], gw_calls[t] + 1,
                            base[t], InsertBases(call[t].id, cap_for_usage))
              ELSE Finish(t, call[t], "Transport", gw_calls[t] + 1, base[t], store,
                          InsertBases(call[t].id, cap_for_usage))
    /\ UNCHANGED <<clock_vars, identity, gateway_vars, ops_left, handed, count_vars, val_vars>>

\* transport.access_with_capability(..).await?
AccessGateway(t, ok) ==
    /\ pc[t] = "access_gateway"
    /\ IF ok
       THEN Continue(t, call[t], "access_insert", local[t], gw_calls[t] + 1, base[t], base)
       ELSE Finish(t, call[t], "Transport", gw_calls[t] + 1, base[t], capabilities, base)
    /\ UNCHANGED <<clock_vars, identity, capabilities, gateway_vars, ops_left, handed,
                   count_vars, val_vars>>

\* the write-back when the caller's token and the store's are one shared object
Mut_AccessInsert(t) ==
    /\ pc[t] = "access_insert"
    /\ LET capability == Unwrap(local[t].capability)
           cap_for_usage == Unwrap(local[t].cap_for_usage)
       IN  /\ capabilities' = Insert(capabilities, capability.id, cap_for_usage)
           /\ handed' = (handed \ {capability}) \cup {cap_for_usage}
           /\ accepted' = [accepted EXCEPT ![capability.id] = @ + 1]
           /\ Finish(t, call[t], "Ok", gw_calls[t], base[t],
                     Insert(capabilities, capability.id, cap_for_usage),
                     InsertBases(capability.id, cap_for_usage))
    /\ UNCHANGED <<clock_vars, identity, gateway_vars, ops_left, disturbed, revoked,
                   confirmed, cleared, closed, id_set,
                   id_cleared, val_vars>>

\* caps.insert(capability.id, cap_for_usage) under the write lock; Ok(result)
AccessInsert(t) ==
    /\ pc[t] = "access_insert"
    /\ LET capability == Unwrap(local[t].capability)
           cap_for_usage == Unwrap(local[t].cap_for_usage)
       IN  /\ capabilities' = Insert(capabilities, capability.id, cap_for_usage)
           /\ accepted' = [accepted EXCEPT ![capability.id] = @ + 1]
           /\ Finish(t, call[t], "Ok", gw_calls[t], base[t],
                     Insert(capabilities, capability.id, cap_for_usage),
                     InsertBases(capability.id, cap_for_usage))
    /\ UNCHANGED <<clock_vars, identity, gateway_vars, ops_left, handed, disturbed, revoked,
                   confirmed, cleared, closed, id_set,
                   id_cleared, val_vars>>

\* ---------------------------------------------- Client::revoke_capability
\* caps.remove(&capability_id) under the write lock
RevokeStart(t, capability_id) ==
    /\ Enter(t)
    /\ capabilities' = Remove(capabilities, capability_id)
    /\ revoked' = [revoked EXCEPT ![capability_id] = TRUE]
    /\ disturbed' = [disturbed EXCEPT ![capability_id] = TRUE]
    /\ confirmed' = [confirmed EXCEPT ![capability_id] = None]
    /\ Continue(t, Call("revoke_capability", capability_id, 0, "", None),
                "revoke_gateway", NoLocal, 0, capabilities, RemoveBases(capability_id))
    /\ UNCHANGED <<clock_vars, identity, gateway_vars, handed, accepted, cleared, closed,
                   id_set,
                   id_cleared, val_vars>>

\* self.transport.revoke_capability(capability_id).await
\* (MockTransport::revoke_capability when it succeeds)
RevokeGateway(t, ok) ==
    /\ pc[t] = "revoke_gateway"
    /\ gw_caps' = IF ok THEN Remove(gw_caps, call[t].id) ELSE gw_caps
    /\ Finish(t, call[t], IF ok THEN "Ok" ELSE "Transport", gw_calls[t] + 1, base[t],
              capabilities, base)
    /\ UNCHANGED <<clock_vars, identity, capabilities, next_id, ops_left, handed, count_vars,
                   val_vars>>

\* ---------------------------------------------- Client::list_capabilities
\* the clones of all the stored tokens, valid or not
Mut_active_caps ==
    {Unwrap(capabilities[i]) : i \in {j \in Ids : IsSome(capabilities[j])}}

\* the clones of the stored tokens for which is_valid() holds
active_caps ==
    {Unwrap(capabilities[i]) :
        i \in {j \in Ids : /\ IsSome(capabilities[j])
                           /\ is_valid(Unwrap(capabilities[j]), now)}}

list_capabilities(t) ==
    /\ Enter(t)
    /\ handed' = handed \cup active_caps
    /\ FinishWith(t, Call("list_capabilities", 0, 0, "", None), "Ok", active_caps, 0,
                  capabilities, capabilities, base)
    /\ UNCHANGED <<clock_vars, identity, capabilities, gateway_vars, count_vars, val_vars>>

\* --------------------------------------------- Client::refresh_capability
\* a refresh that does not look at the identity
Mut_RefreshStart(t, capability_id, new_ttl) ==
    /\ Enter(t)
    /\ disturbed' = [disturbed EXCEPT ![capability_id] = TRUE]
    /\ Continue(t, Call("refresh_capability", capability_id, new_ttl, "", None),
                "refresh_gateway", NoLocal, 0, capabilities, base)
    /\ UNCHANGED <<clock_vars, identity, capabilities, gateway_vars, handed, accepted,
                   revoked, confirmed, cleared, closed, id_set, id_cleared, val_vars>>

\* get_identity().await.ok_or(MissingIdentity)?
RefreshStart(t, capability_id, new_ttl) ==
    /\ Enter(t)
    /\ disturbed' = [disturbed EXCEPT ![capability_id] = TRUE]
    /\ LET c == Call("refresh_capability", capability_id, new_ttl, "", None) IN
       IF ~IsSome(identity)
       THEN Finish(t, c, "MissingIdentity", 0, capabilities, capabilities, base)
       ELSE Continue(t, c, "refresh_gateway", NoLocal, 0, capabilities, base)
    /\ UNCHANGED <<clock_vars, identity, capabilities, gateway_vars, handed, accepted,
                   revoked, confirmed, cleared, closed, id_set,
                   id_cleared, val_vars>>

\* transport.refresh_capability(&identity, capability_id, new_ttl).await?
\* (MockTransport::refresh_capability when it succeeds)
RefreshGateway(t, ok) ==
    /\ pc[t] = "refresh_gateway"
    /\ IF ok /\ IsSome(gw_caps[call[t].id])
       THEN LET cap == [Unwrap(gw_caps[call[t].id]) EXCEPT
                           !.expires_at = now + call[t].ttl]
            IN  /\ gw_caps' = Insert(gw_caps, call[t].id, cap)
                /\ Continue(t, call[t], "refresh_insert",
                            [NoLocal EXCEPT !.refreshed_cap = Some(cap)],
                            gw_calls[t] + 1, base[t], base)
       ELSE /\ UNCHANGED gw_caps
            /\ Finish(t, call[t], "Transport", gw_calls[t] + 1, base[t], capabilities, base)
    /\ UNCHANGED <<clock_vars, identity, capabilities, next_id, ops_left, handed, count_vars,
                   val_vars>>

\* HttpTransport::refresh_capability when the server answers with success: the
\* token is whatever the response body deserialises to; here one of the tokens
\* the server has issued, answered_id, with its expiry extended
RefreshGatewayHttp(t, answered_id) ==
    /\ pc[t] = "refresh_gateway"
    /\ IsSome(gw_caps[answered_id])
    /\ LET capability == [Unwrap(gw_caps[answered_id]) EXCEPT
                             !.expires_at = now + call[t].ttl]
       IN  /\ gw_caps' = Insert(gw_caps, answered_id, capability)
           /\ Continue(t, call[t], "refresh_insert",
                       [NoLocal EXCEPT !.refreshed_cap = Some(capability)],
                       gw_calls[t] + 1, base[t], base)
    /\ UNCHANGED <<clock_vars, identity, capabilities, next_id, ops_left, handed, count_vars,
                   val_vars>>

\* caps.insert(capability_id, refreshed_cap.clone()); Ok(refreshed_cap)
RefreshInsert(t) ==
    /\ pc[t] = "refresh_insert"
    /\ LET refreshed_cap == Unwrap(local[t].refreshed_cap) IN
       /\ capabilities' = Insert(capabilities, call[t].id, refreshed_cap)
       /\ handed' = handed \cup {refreshed_cap}
       /\ confirmed' = [confirmed EXCEPT ![call[t].id] = Some(refreshed_cap.expires_at)]
       /\ FinishWith(t, call[t], "Ok", {refreshed_cap}, gw_calls[t], base[t],
                     Insert(capabilities, call[t].id, refreshed_cap),
                     InsertBases(call[t].id, refreshed_cap))
    /\ UNCHANGED <<clock_vars, identity, gateway_vars, ops_left, accepted, disturbed,
                   revoked, cleared, closed, id_set,
                   id_cleared, val_vars>>

\* ---------------------------------------------------------- Client::close
\* caps.clear() under the write lock
CloseStart(t) ==
    /\ Enter(t)
    /\ capabilities' = EmptyStore
    /\ disturbed' = [i \in Ids |-> TRUE]
    /\ confirmed' = [i \in Ids |-> None]
    /\ cleared' = cleared \cup Minted
    /\ Continue(t, Call("close", 0, 0, "", None), "close_identity", NoLocal, 0,
                capabilities, ClearBases)
    /\ UNCHANGED <<clock_vars, identity, gateway_vars, handed, accepted, revoked, closed,
                   id_set,
                   id_cleared, val_vars>>

\* *id = None under the identity write lock
CloseIdentity(t) ==
    /\ pc[t] = "close_identity"
    /\ identity' = None
    /\ id_cleared' = TRUE
    /\ Continue(t, call[t], "close_transport", NoLocal, gw_calls[t], base[t], base)
    /\ UNCHANGED <<clock_vars, capabilities, gateway_vars, ops_left, handed, accepted,
                   disturbed, revoked, confirmed, cleared, closed, id_set, val_vars>>

\* self.transport.close().await
CloseTransport(t, ok) ==
    /\ pc[t] = "close_transport"
    /\ closed' = TRUE
    /\ Finish(t, call[t], IF ok THEN "Ok" ELSE "Transport", gw_calls[t], base[t],
              capabilities, base)
    /\ UNCHANGED <<clock_vars, identity, capabilities, gateway_vars, ops_left, handed,
                   accepted, disturbed, revoked, confirmed, cleared, id_set,
                   id_cleared, val_vars>>

\* ------------------------------------------------------------ the session
\* the identifiers a caller can name: those of the tokens handed to callers
Known == {cap.id : cap \in handed}

Next ==
    \/ \E d \in TickSteps : Tick(d)
    \/ \E t \in Tasks, ident \in Identities : set_identity(t, ident)
    \/ \E t \in Tasks, in \in RequestInputs, context \in RequestContexts :
          RequestStart(t, in[2], context, in[1])
    \/ \E t \in Tasks, ok \in BOOLEAN : RequestGateway(t, ok)
    \/ \E t \in Tasks : RequestInsert(t)
    \/ \E t \in Tasks, capability \in handed : AccessStart(t, capability)
    \/ \E t \in Tasks : AccessRead(t)
    \/ \E t \in Tasks, ok \in BOOLEAN : AccessGateway(t, ok)
    \/ \E t \in Tasks : AccessInsert(t)
    \/ \E t \in Tasks, capability_id \in Known : RevokeStart(t, capability_id)
    \/ \E t \in Tasks, ok \in BOOLEAN : RevokeGateway(t, ok)
    \/ \E t \in Tasks : list_capabilities(t)
    \/ \E t \in Tasks, capability_id \in Known, new_ttl \in RefreshTtls :
          RefreshStart(t, capability_id, new_ttl)
    \/ \E t \in Tasks, ok \in BOOLEAN : RefreshGateway(t, ok)
    \/ \E t \in Tasks : RefreshInsert(t)
    \/ \E t \in Tasks : CloseStart(t)
    \/ \E t \in Tasks : CloseIdentity(t)
    \/ \E t \in Tasks, ok \in BOOLEAN : CloseTransport(t, ok)

Spec == Init /\ [][Next]_vars

\* The same session with one capability operation fewer: small enough to be
\* explored exhaustively also with one more task, operation, tick and use.
ShortInit ==
    /\ SessionInit
    /\ ops_left = MaxOps - 1
    /\ vcap = None /\ vnow = 0 /\ vres = FALSE /\ vdone = FALSE
    /\ probe = NoProbe /\ vlog = <<>>

SpecShort == ShortInit /\ [][Next]_vars

\* The steps of operations under way.  A task that has entered an operation is
\* scheduled again: its lock is granted, its gateway call returns.  Nothing
\* obliges a caller to start an operation, and nothing else runs in a Client.
Progress ==
    \/ \E t \in Tasks, ok \in BOOLEAN : RequestGateway(t, ok)
    \/ \E t \in Tasks : RequestInsert(t)
    \/ \E t \in Tasks : AccessRead(t)
    \/ \E t \in Tasks, ok \in BOOLEAN : AccessGateway(t, ok)
    \/ \E t \in Tasks : AccessInsert(t)
    \/ \E t \in Tasks, ok \in BOOLEAN : RevokeGateway(t, ok)
    \/ \E t \in Tasks, ok \in BOOLEAN : RefreshGateway(t, ok)
    \/ \E t \in Tasks : RefreshInsert(t)
    \/ \E t \in Tasks : CloseIdentity(t)
    \/ \E t \in Tasks, ok \in BOOLEAN : CloseTransport(t, ok)

SpecLive == ShortInit /\ [][Next]_vars /\ WF_vars(Progress)

\* ------------------------------------------------------ identity management
\* Client::get_identity: a clone of the identity under the read lock.  The probe
\* keeps, beside the answer, what the last set_identity was given and whether a
\* close has cleared the identity since.
get_identity(t) ==
    /\ Idle(t)
    /\ probe' = [op |-> "get_identity", args |-> <<id_set, id_cleared>>, at |-> now,
                 res |-> identity]
    /\ UNCHANGED <<session_vars, lock_vars, vcap, vnow, vres, vdone, vlog>>

\* the identities of two callers
IdIdentities == {"alice", "bob"}

\* The operations that read or write the identity: set_identity, get_identity,
\* request_capability, refresh_capability and close, with a gateway that
\* answers every call.
IdNext ==
    \/ \E t \in Tasks, ident \in IdIdentities : set_identity(t, ident)
    \/ \E t \in Tasks : get_identity(t)
    \/ \E t \in Tasks :
          RequestStart(t, "users", CapabilityContext(None, None, None, None, None),
                       MinTtlSecs)
    \/ \E t \in Tasks : RequestGateway(t, TRUE)
    \/ \E t \in Tasks : RequestInsert(t)
    \/ \E t \in Tasks, capability_id \in Known, new_ttl \in RefreshTtls :
          RefreshStart(t, capability_id, new_ttl)
    \/ \E t \in Tasks : RefreshGateway(t, TRUE)
    \/ \E t \in Tasks : RefreshInsert(t)
    \/ \E t \in Tasks : CloseStart(t)
    \/ \E t \in Tasks : CloseIdentity(t)
    \/ \E t \in Tasks : CloseTransport(t, TRUE)

SpecId == Init /\ [][IdNext]_vars

\* The store under request, access, refresh and revoke alone: every caller
\* asks for a valid token, with or without a usage limit, and the gateway
\* answers every call.
StoreNext ==
    \/ \E t \in Tasks, ident \in Identities : set_identity(t, ident)
    \/ \E t \in Tasks, context \in RequestContexts :
          RequestStart(t, "users", context, MinTtlSecs)
    \/ \E t \in Tasks : RequestGateway(t, TRUE)
    \/ \E t \in Tasks : RequestInsert(t)
    \/ \E t \in Tasks, capability \in handed : AccessStart(t, capability)
    \/ \E t \in Tasks : AccessRead(t)
    \/ \E t \in Tasks : AccessGateway(t, TRUE)
    \/ \E t \in Tasks : AccessInsert(t)
    \/ \E t \in Tasks, capability_id \in Known : RevokeStart(t, capability_id)
    \/ \E t \in Tasks : RevokeGateway(t, TRUE)
    \/ \E t \in Tasks, capability_id \in Known, new_ttl \in RefreshTtls :
          RefreshStart(t, capability_id, new_ttl)
    \/ \E t \in Tasks : RefreshGateway(t, TRUE)
    \/ \E t \in Tasks : RefreshInsert(t)

SpecStore == Init /\ [][StoreNext]_vars

\* The store behind the HTTP transport: every caller asks for a valid token and
\* the server answers every call, a refresh with any token it has issued.
HttpNext ==
    \/ \E t \in Tasks, ident \in Identities : set_identity(t, ident)
    \/ \E t \in Tasks :
          RequestStart(t, "users", CapabilityContext(None, None, None, None, None),
                       MinTtlSecs)
    \/ \E t \in Tasks : RequestGateway(t, TRUE)
    \/ \E t \in Tasks : RequestInsert(t)
    \/ \E t \in Tasks, capability \in handed : AccessStart(t, capability)
    \/ \E t \in Tasks : AccessRead(t)
    \/ \E t \in Tasks : AccessGateway(t, TRUE)
    \/ \E t \in Tasks : AccessInsert(t)
    \/ \E t \in Tasks, capability_id \in Known : RevokeStart(t, capability_id)
    \/ \E t \in Tasks : RevokeGateway(t, TRUE)
    \/ \E t \in Tasks, capability_id \in Known, new_ttl \in RefreshTtls :
          RefreshStart(t, capability_id, new_ttl)
    \/ \E t \in Tasks, answered_id \in Ids : RefreshGatewayHttp(t, answered_id)
    \/ \E t \in Tasks : RefreshInsert(t)
    \/ \E t \in Tasks : CloseStart(t)
    \/ \E t \in Tasks : CloseIdentity(t)
    \/ \E t \in Tasks : CloseTransport(t, TRUE)

SpecHttp == Init /\ [][HttpNext]_vars

\* ------------------------------------------------------- the lock protocol
\* Each operation of the Client as the sequence of its lock acquisitions, lock
\* releases (the end of the block or function that owns the guard), fallible
\* steps (a `?` or an early return) and gateway calls.
Acq(lock, mode) == [k |-> "acquire", lock |-> lock, mode |-> mode]
Rel(lock) == [k |-> "release", lock |-> lock, mode |-> "none"]
Try == [k |-> "try", lock |-> "none", mode |-> "none"]
Gateway == [k |-> "gateway", lock |-> "none", mode |-> "none"]

LockOps ==
    {"set_identity", "get_identity", "request_capability", "access_with_capability",
     "revoke_capability", "list_capabilities", "refresh_capability", "close"}

\* access_with_capability with the cache read guard bound outside its block
Mut_Program(op) ==
    CASE op = "set_identity" -> <<Acq("identity", "write"), Rel("identity")>>
      [] op = "get_identity" -> <<Acq("identity", "read"), Rel("identity")>>
      [] op = "request_capability" ->
            <<Acq("identity", "read"), Rel("identity"), Try, Gateway,
              Acq("capabilities", "write"), Rel("capabilities")>>
      [] op = "access_with_capability" ->
            <<Try, Acq("capabilities", "read"), Try, Gateway,
              Acq("capabilities", "write"), Rel("capabilities")>>
      [] op = "revoke_capability" ->
            <<Acq("capabilities", "write"), Rel("capabilities"), Gateway>>
      [] op = "list_capabilities" ->
            <<Acq("capabilities", "read"), Rel("capabilities")>>
      [] op = "refresh_capability" ->
            <<Acq("identity", "read"), Rel("identity"), Try, Gateway,
              Acq("capabilities", "write"), Rel("capabilities")>>
      [] op = "close" ->
            <<Acq("capabilities", "write"), Rel("capabilities"),
              Acq("identity", "write"), Rel("identity"), Gateway>>

Program(op) ==
    CASE op = "set_identity" -> <<Acq("identity", "write"), Rel("identity")>>
      [] op = "get_identity" -> <<Acq("identity", "read"), Rel("identity")>>
      [] op = "request_capability" ->
            <<Acq("identity", "read"), Rel("identity"), Try, Gateway,
              Acq("capabilities", "write"), Rel("capabilities")>>
      [] op = "access_with_capability" ->
            <<Try, Acq("capabilities", "read"), Rel("capabilities"), Try, Gateway,
              Acq("capabilities", "write"), Rel("capabilities")>>
      [] op = "revoke_capability" ->
            <<Acq("capabilities", "write"), Rel("capabilities"), Gateway>>
      [] op = "list_capabilities" ->
            <<Acq("capabilities", "read"), Rel("capabilities")>>
      [] op = "refresh_capability" ->
            <<Acq("identity", "read"), Rel("identity"), Try, Gateway,
              Acq("capabilities", "write"), Rel("capabilities")>>
      [] op = "close" ->
            <<Acq("capabilities", "write"), Rel("capabilities"),
              Acq("identity", "write"), Rel("identity"), Gateway>>

\* the step task t is at
Step(t) == Program(lock_pc[t].op)[lock_pc[t].at]

\* task t's position after the step it is at
Advance(t) ==
    IF lock_pc[t].at = Len(Program(lock_pc[t].op))
    THEN LockIdle
    ELSE [lock_pc[t] EXCEPT !.at = @ + 1, !.st = "run"]

\* the locks without the guards task t holds: what leaving a scope drops
Dropped(t) ==
    [l \in LockNames |->
        [locks[l] EXCEPT !.readers = @ \ {t}, !.writer = @ \ {t}]]

\* a caller enters operation op
LockStart(t, op) ==
    /\ lock_pc[t] = LockIdle
    /\ \A u \in Tasks : u < t => lock_pc[u] /= LockIdle
    /\ lock_ops > 0
    /\ lock_ops' = lock_ops - 1
    /\ lock_pc' = [lock_pc EXCEPT ![t] = [op |-> op, at |-> 1, st |-> "run"]]
    /\ UNCHANGED <<locks, session_vars, eval_vars>>

\* lock.read().await or lock.write().await is polled: the task joins the
\* lock's queue of waiters
Acquire(t) ==
    /\ lock_pc[t].st = "run"
    /\ Step(t).k = "acquire"
    /\ locks' = [locks EXCEPT ![Step(t).lock].queue = Append(@, t)]
    /\ lock_pc' = [lock_pc EXCEPT ![t].st = "queued"]
    /\ UNCHANGED <<lock_ops, session_vars, eval_vars>>

\* the lock is granted to the first waiter: a writer when nobody holds it, a
\* reader when no writer does
Grant(t) ==
    /\ lock_pc[t].st = "queued"
    /\ LET l == Step(t).lock IN
       /\ Head(locks[l].queue) = t
       /\ locks[l].writer = {}
       /\ Step(t).mode = "write" => locks[l].readers = {}
       /\ locks' = [locks EXCEPT
                       ![l] = IF Step(t).mode = "write"
                              THEN [@ EXCEPT !.writer = {t}, !.queue = Tail(@)]
                              ELSE [@ EXCEPT !.readers = @ \cup {t}, !.queue = Tail(@)]]
    /\ lock_pc' = [lock_pc EXCEPT ![t] = Advance(t)]
    /\ UNCHANGED <<lock_ops, session_vars, eval_vars>>

\* the guard goes out of scope
Release(t) ==
    /\ lock_pc[t].st = "run"
    /\ Step(t).k = "release"
    /\ locks' = [locks EXCEPT ![Step(t).lock] =
                    [@ EXCEPT !.readers = @ \ {t}, !.writer = @ \ {t}]]
    /\ lock_pc' = [lock_pc EXCEPT ![t] = Advance(t)]
    /\ UNCHANGED <<lock_ops, session_vars, eval_vars>>

\* a fallible step: the operation goes on, or returns its error
TryStep(t, ok) ==
    /\ lock_pc[t].st = "run"
    /\ Step(t).k = "try"
    /\ IF ok
       THEN lock_pc' = [lock_pc EXCEPT ![t] = Advance(t)] /\ UNCHANGED locks
       ELSE lock_pc' = [lock_pc EXCEPT ![t] = LockIdle] /\ locks' = Dropped(t)
    /\ UNCHANGED <<lock_ops, session_vars, eval_vars>>

\* self.transport.<call>(..).await: the call is sent and the task suspended
GatewayCall(t) ==
    /\ lock_pc[t].st = "run"
    /\ Step(t).k = "gateway"
    /\ lock_pc' = [lock_pc EXCEPT ![t].st = "pending"]
    /\ UNCHANGED <<locks, lock_ops, session_vars, eval_vars>>

\* the gateway call returns, with Ok or with the error the operation returns
GatewayReturn(t, ok) ==
    /\ lock_pc[t].st = "pending"
    /\ IF ok
       THEN lock_pc' = [lock_pc EXCEPT ![t] = Advance(t)] /\ UNCHANGED locks
       ELSE lock_pc' = [lock_pc EXCEPT ![t] = LockIdle] /\ locks' = Dropped(t)
    /\ UNCHANGED <<lock_ops, session_vars, eval_vars>>

\* the steps of task t that the client itself takes
ClientStep(t) ==
    \/ Acquire(t)
    \/ Grant(t)
    \/ Release(t)
    \/ \E ok \in BOOLEAN : TryStep(t, ok)
    \/ GatewayCall(t)

LockNext ==
    \/ \E t \in Tasks, op \in LockOps : LockStart(t, op)
    \/ \E t \in Tasks : Acquire(t)
    \/ \E t \in Tasks : Grant(t)
    \/ \E t \in Tasks : Release(t)
    \/ \E t \in Tasks, ok \in BOOLEAN : TryStep(t, ok)
    \/ \E t \in Tasks : GatewayCall(t)
    \/ \E t \in Tasks, ok \in BOOLEAN : GatewayReturn(t, ok)

\* A task that can take a step is scheduled again, and a lock that can be
\* granted is granted; nothing is assumed of the gateway.
SpecLock == Init /\ [][LockNext]_vars /\ \A t \in Tasks : WF_vars(ClientStep(t))

\* ------------------------------------------------- the validity evaluator
\* The tokens and instants is_valid is probed with.  A token is issued at one
\* of two instants: the epoch, a Thursday, and two seconds before the first
\* Sunday after it, so that the weekday changes while the token lives.
ValBases == {0, 3 * SecsPerDay - 2}

ValWindows(b) ==
    {None} \cup
    {Some(TimeWindow(b + s, b + e, d)) :
        s \in 0..ValMaxTime, e \in 0..ValMaxTime,
        d \in {None, Some({EpochWeekday}), Some({0}), Some({6})}}

ValUsages ==
    {None} \cup
    {Some(UsageLimits(m, c)) :
        m \in {None} \cup {Some(k) : k \in 0..ValMaxUses}, c \in 0..(ValMaxUses + 1)}

ValTokens(b) ==
    {[id |-> 1, context |-> CapabilityContext(None, None, None, w, u),
      issued_at |-> b, expires_at |-> b + e] :
        w \in ValWindows(b), u \in ValUsages, e \in 1..ValMaxTime}

ValInit ==
    /\ SessionInit
    /\ ops_left = MaxOps
    /\ \E b \in ValBases :
          /\ vcap \in {Some(c) : c \in ValTokens(b)}
          /\ vnow \in b..(b + ValMaxTime + 1)
    /\ vres = FALSE /\ vdone = FALSE
    /\ probe = NoProbe /\ vlog = <<>>

\* vcap.is_valid() at the instant vnow
Evaluate ==
    /\ ~vdone
    /\ vres' = is_valid(Unwrap(vcap), vnow)
    /\ vdone' = TRUE
    /\ UNCHANGED <<vcap, vnow, probe, vlog>>

\* the clock advances between two probes of the same token
ValAdvance ==
    /\ vdone
    /\ vnow < Unwrap(vcap).issued_at + ValMaxTime + 1
    /\ vnow' = vnow + 1
    /\ vdone' = FALSE
    /\ UNCHANGED <<vcap, vres, probe, vlog>>

\* vcap.remaining_ttl() at the instant vnow
RemainingTtl ==
    /\ probe' = [op |-> "remaining_ttl", args |-> <<>>, at |-> vnow,
                 res |-> remaining_ttl(Unwrap(vcap), vnow)]
    /\ UNCHANGED <<vcap, vnow, vres, vdone, vlog>>

ValNext ==
    /\ Evaluate \/ ValAdvance \/ RemainingTtl
    /\ UNCHANGED <<session_vars, lock_vars>>

SpecVal == ValInit /\ [][ValNext]_vars

\* ----------------------------------------------- is_valid_for_context
\* The tokens is_valid_for_context is probed with: every combination of an
\* absent, an empty and a one-element set for the three constraints, on a token
\* that is fresh or at its usage limit.
CtxTokens ==
    {[id |-> 1,
      context |-> CapabilityContext(e, s, n, None, u),
      issued_at |-> 0, expires_at |-> 1] :
        e \in {None, Some({}), Some({"production"})},
        s \in {None, Some({}), Some({"api-service"})},
        n \in {None, Some({}), Some({"default"})},
        u \in {None, Some(UsageLimits(Some(1), 1))}}

CtxEnvironments == {"production", "staging"}
CtxServices == {"api-service", "worker"}
CtxNamespaces == {"default", "kube-system"}

CtxInit ==
    /\ SessionInit
    /\ ops_left = MaxOps
    /\ vcap \in {Some(c) : c \in CtxTokens}
    /\ vnow \in 0..2
    /\ vres = FALSE /\ vdone = FALSE
    /\ probe = NoProbe /\ vlog = <<>>

\* vcap.is_valid_for_context(environment, service, namespace) at the instant vnow
EvaluateForContext(environment, service, namespace) ==
    /\ probe' = [op |-> "is_valid_for_context",
                 args |-> <<environment, service, namespace>>, at |-> vnow,
                 res |-> is_valid_for_context(Unwrap(vcap), environment, service,
                                              namespace, vnow)]
    /\ UNCHANGED <<vcap, vnow, vres, vdone, vlog>>

CtxNext ==
    /\ \/ Evaluate
       \/ ValAdvance
       \/ \E environment \in CtxEnvironments, service \in CtxServices,
             namespace \in CtxNamespaces :
             EvaluateForContext(environment, service, namespace)
    /\ UNCHANGED <<session_vars, lock_vars>>

SpecCtx == CtxInit /\ [][CtxNext]_vars

\* ------------------------------------------------------ increment_usage
\* The tokens increment_usage is called on, again and again.
UseTokens ==
    {[id |-> 1, context |-> CapabilityContext(None, None, None, None, u),
      issued_at |-> 0, expires_at |-> 1] : u \in ValUsages}

UseInit ==
    /\ SessionInit
    /\ ops_left = MaxOps
    /\ vcap \in {Some(c) : c \in UseTokens}
    /\ vnow = 0
    /\ vres = FALSE /\ vdone = FALSE
    /\ probe = NoProbe /\ vlog = <<>>

\* vcap.increment_usage(); the log keeps the token as it was, whether is_valid
\* was evaluated on it just before and what it answered, and the call's result
RecordUse ==
    /\ Len(vlog) < MaxCalls
    /\ LET used == increment_usage(Unwrap(vcap)) IN
       /\ vcap' = Some(used.cap)
       /\ vlog' = Append(vlog, [before |-> Unwrap(vcap), checked |-> vdone,
                                valid |-> vres, ok |-> used.ok])
    /\ vdone' = FALSE
    /\ UNCHANGED <<vnow, vres, probe>>

UseNext ==
    /\ RecordUse \/ Evaluate
    /\ UNCHANGED <<session_vars, lock_vars>>

SpecUse == UseInit /\ [][UseNext]_vars

\* ------------------------------------------- functions called on their own
\* The library's functions that need no session, each applied to inputs drawn
\* around the values its code compares against; probe records the call.
FnTtls ==
    {0, MinTtlSecs - 1, MinTtlSecs, MinTtlSecs + 1,
     MaxTtlSecs - 1, MaxTtlSecs, MaxTtlSecs + 1}

FnTargets == {"", "users"}

\* CapabilityRequest { ttl, target, .. }.validate()
Validate(ttl, target) ==
    /\ probe' = [op |-> "validate", args |-> <<ttl, target>>, at |-> vnow,
                 res |-> validate(ttl, target)]
    /\ UNCHANGED <<vcap, vnow, vres, vdone, vlog>>

\* the results of chrono::Duration::from_std on the TTLs the constructor is given
FnFromStd == {Some(ttl) : ttl \in FnTtls} \cup {None}

\* Capability::new(.., context, ttl, ..) at the instant vnow
NewCapability(from_std) ==
    /\ probe' = [op |-> "Capability::new", args |-> <<from_std>>, at |-> vnow,
                 res |-> Capability_new_call(
                             1, CapabilityContext(None, None, None, None, None),
                             from_std, vnow)]
    /\ UNCHANGED <<vcap, vnow, vres, vdone, vlog>>

\* the tokens that are written and read back: constructed at the instant 0
\* with a TTL of a day and a half, every constraint absent, empty or filled
FnTokens ==
    {Capability_new(1, CapabilityContext(e, s, n, w, u), SecsPerDay + SecsPerDay \div 2, 0) :
        e \in {None, Some({}), Some({"production"}), Some({"production", "staging"})},
        s \in {None, Some({})},
        n \in {None, Some({"default"})},
        w \in {None, Some(TimeWindow(0, SecsPerDay + 1, None)),
                Some(TimeWindow(1, 2, Some({}))), Some(TimeWindow(1, 2, Some({0, 6})))},
        u \in {None, Some(UsageLimits(None, 0)), Some(UsageLimits(Some(0), 1))}}

\* Capability::from_bytes(&cap.to_bytes()?)
RoundTrip(cap, rev) ==
    /\ probe' = [op |-> "from_bytes", args |-> <<cap>>, at |-> vnow,
                 res |-> from_bytes(to_bytes(cap, rev))]
    /\ UNCHANGED <<vcap, vnow, vres, vdone, vlog>>

\* the strings Domain::parse is given: the fixed names, some of them in other
\* cases, custom names in both cases, and strings it has no arm for
FnDomainStrings ==
    {<<"d", "a", "t", "a", "b", "a", "s", "e">>,
     <<"t", "l", "s">>,
     <<"s", "m", "t", "p">>,
     <<"i", "m", "a", "p">>,
     <<"d", "o", "c", "k", "e", "r">>,
     <<"g", "i", "t">>,
     <<"f", "i", "l", "e", "s", "y", "s", "t", "e", "m">>,
     <<"c", "l", "o", "u", "d">>,
     <<"a", "p", "i">>,
     <<"s", "s", "h">>,
     <<"D", "a", "t", "a", "B", "a", "s", "e">>,
     <<"T", "L", "S">>,
     <<"S", "s", "h">>,
     <<"c", "u", "s", "t", "o", "m", ":", "m", "y", "d", "o", "m", "a", "i", "n">>,
     <<"c", "u", "s", "t", "o", "m", ":", "M", "y", "D", "o", "m", "a", "i", "n">>,
     <<"C", "U", "S", "T", "O", "M", ":", "x">>,
     <<"c", "u", "s", "t", "o", "m", ":">>,
     <<"c", "u", "s", "t", "o", "m">>,
     <<"i", "n", "v", "a", "l", "i", "d">>,
     <<>>,
     <<"d", "a", "t", "a", "b", "a", "s", "e", "s">>,
     <<"r", "e", "a", "d">>}

\* the strings Action::parse is given
FnActionStrings ==
    {<<"r", "e", "a", "d">>,
     <<"w", "r", "i", "t", "e">>,
     <<"d", "e", "l", "e", "t", "e">>,
     <<"e", "x", "e", "c", "u", "t", "e">>,
     <<"l", "i", "s", "t">>,
     <<"a", "d", "m", "i", "n">>,
     <<"c", "r", "e", "a", "t", "e">>,
     <<"u", "p", "d", "a", "t", "e">>,
     <<"R", "E", "A", "D">>,
     <<"W", "r", "i", "t", "e">>,
     <<"c", "u", "s", "t", "o", "m", ":", "m", "y", "a", "c", "t", "i", "o", "n">>,
     <<"c", "u", "s", "t", "o", "m", ":", "M", "y", "A", "c", "t", "i", "o", "n">>,
     <<"C", "u", "s", "t", "o", "m", ":", "Y">>,
     <<"c", "u", "s", "t", "o", "m", ":">>,
     <<"i", "n", "v", "a", "l", "i", "d">>,
     <<>>,
     <<"r", "e", "a", "d", "s">>,
     <<"d", "a", "t", "a", "b", "a", "s", "e">>}

\* Domain::parse(s)
ParseDomain(s) ==
    /\ probe' = [op |-> "Domain::parse", args |-> <<s>>, at |-> vnow,
                 res |-> Domain_parse(s)]
    /\ UNCHANGED <<vcap, vnow, vres, vdone, vlog>>

\* Action::parse(s)
ParseAction(s) ==
    /\ probe' = [op |-> "Action::parse", args |-> <<s>>, at |-> vnow,
                 res |-> Action_parse(s)]
    /\ UNCHANGED <<vcap, vnow, vres, vdone, vlog>>

\* err.is_retryable()
IsRetryable(err) ==
    /\ probe' = [op |-> "is_retryable", args |-> <<err>>, at |-> vnow,
                 res |-> is_retryable(err)]
    /\ UNCHANGED <<vcap, vnow, vres, vdone, vlog>>

\* "https://vault.example.com"
OtherEndpoint ==
    <<"h", "t", "t", "p", "s", ":", "/", "/", "v", "a", "u", "l", "t", ".",
      "e", "x", "a", "m", "p", "l", "e", ".", "c", "o", "m">>

\* the configurations validate is given
FnConfigs ==
    {Config(e, t, AuthConfig(m, tf, cf, kf, None), "info") :
        e \in {DefaultEndpoint, OtherEndpoint, <<>>, <<"/", "r", "u", "n", "/", "v", "a", "u", "l", "t", ".", "s", "o", "c", "k">>},
        t \in {"Http", "Unix", "Mtls"},
        m \in {"Token", "Certificate", "Workload", "None"},
        tf \in {None, Some("token")},
        cf \in {None, Some("cert.pem")},
        kf \in {None, Some("key.pem")}}

\* the configurations that are merged: what a file or a caller may hold
FnMergeConfigs ==
    {Config(e, t, AuthConfig(m, tf, None, None, None), l) :
        e \in {DefaultEndpoint, OtherEndpoint},
        t \in {"Http", "Mtls"},
        m \in {"Token", "Workload"},
        tf \in {None, Some("token")},
        l \in {"info", "debug"}}

\* the environments from_env reads
FnEnvs ==
    {[VAULT_ENDPOINT |-> e, VAULT_TRANSPORT |-> t, VAULT_AUTH_METHOD |-> m,
      VAULT_TOKEN_FILE |-> tf, VAULT_CERT_FILE |-> None, VAULT_KEY_FILE |-> None,
      VAULT_CA_FILE |-> None, VAULT_LOG_LEVEL |-> l] :
        e \in {None, Some(DefaultEndpoint), Some(OtherEndpoint)},
        t \in {None, Some(<<"h", "t", "t", "p">>), Some(<<"M", "T", "L", "S">>), Some(<<"t", "c", "p">>)},
        m \in {None, Some(<<"t", "o", "k", "e", "n">>),
               Some(<<"w", "o", "r", "k", "l", "o", "a", "d">>)},
        tf \in {None, Some("env-token")},
        l \in {None, Some("info"), Some("debug")}}

\* config.validate()
ValidateConfig(config) ==
    /\ probe' = [op |-> "Config::validate", args |-> <<config>>, at |-> vnow,
                 res |-> Config_validate(config)]
    /\ UNCHANGED <<vcap, vnow, vres, vdone, vlog>>

\* config.merge(other)
MergeConfig(config, other) ==
    /\ probe' = [op |-> "Config::merge", args |-> <<config, other>>, at |-> vnow,
                 res |-> Config_merge(config, other)]
    /\ UNCHANGED <<vcap, vnow, vres, vdone, vlog>>

\* Config::load_with_file(path) with the file's content and the environment
LoadWithFile(file, env) ==
    /\ probe' = [op |-> "Config::load_with_file", args |-> <<file, env>>, at |-> vnow,
                 res |-> load_with_file(file, env)]
    /\ UNCHANGED <<vcap, vnow, vres, vdone, vlog>>

\* Each behaviour applies one function to one input.
FnNext ==
    /\ probe = NoProbe
    /\ \/ \E ttl \in FnTtls, target \in FnTargets : Validate(ttl, target)
       \/ \E config \in FnConfigs \cup {Config_default} : ValidateConfig(config)
       \/ \E config \in FnMergeConfigs, other \in FnMergeConfigs :
             MergeConfig(config, other)
       \/ \E file \in FnMergeConfigs, env \in FnEnvs : LoadWithFile(file, env)
       \/ \E err \in VaultErrors : IsRetryable(err)
       \/ \E s \in FnDomainStrings : ParseDomain(s)
       \/ \E s \in FnActionStrings : ParseAction(s)
       \/ \E cap \in FnTokens, rev \in BOOLEAN : RoundTrip(cap, rev)
       \/ \E from_std \in FnFromStd : NewCapability(from_std)
    /\ UNCHANGED <<session_vars, lock_vars>>

SpecFn == Init /\ [][FnNext]_vars

\* ----------------------------------------------------------------- claims
AccessOp == "access_with_capability"
RequestOp == "request_capability"
RefreshOp == "refresh_capability"

\* the usage limits of a token that has some
Limits(cap) == Unwrap(cap.context.usage_limits)
HasLimits(cap) == IsSome(cap.context.usage_limits)
HasMaxUses(cap) == HasLimits(cap) /\ IsSome(Limits(cap).max_uses)

\* no access_with_capability call on identifier i is in flight
NoAccessInFlight(i) ==
    \A t \in Tasks : ~(call[t].op = AccessOp /\ call[t].id = i)

\* C1: for a stored token with usage limits that no refresh, revoke or close has
\* touched, once every access_with_capability call on it has returned, the stored
\* current_uses is its initial value (0 at mint) plus the number of calls that
\* returned success.
C1_NoLostUpdate ==
    \A i \in Ids :
        (/\ IsSome(capabilities[i])
         /\ ~disturbed[i]
         /\ NoAccessInFlight(i)
         /\ HasLimits(Unwrap(capabilities[i])))
        => Limits(Unwrap(capabilities[i])).current_uses = accepted[i]

\* C2: for a token minted with max_uses = N and current_uses = 0 that no refresh,
\* revoke or close has touched, at most N access_with_capability calls reach the
\* gateway and return success.
C2_AtMostMaxUses ==
    \A i \in Ids :
        (/\ IsSome(gw_caps[i])
         /\ ~disturbed[i]
         /\ HasMaxUses(Unwrap(gw_caps[i])))
        => accepted[i] <= Unwrap(Limits(Unwrap(gw_caps[i])).max_uses)

\* C3: between the read of the stored token by access_with_capability and its
\* write-back, no other mutation of the same identifier takes effect: the store
\* still holds for it what the call read.
C3_AtomicReadModifyWrite ==
    \A t \in Tasks :
        pc[t] \in {"access_gateway", "access_insert"}
        => capabilities[call[t].id] = local[t].cached_cap

\* C4: after revoke_capability(id) has run, and as long as no refresh has put
\* the identifier back, the store holds no entry for id and list_capabilities
\* does not return the token, whatever access_with_capability calls are made.
C4_RevokedStaysAbsent ==
    \A i \in Ids :
        (revoked[i] /\ ~IsSome(confirmed[i]))
        => /\ ~IsSome(capabilities[i])
           /\ \A cap \in active_caps : cap.id /= i

\* C5: an access_with_capability call made after revoke_capability(id) removed the
\* token locally is refused and makes no call of the gateway's access operation.
C5_RevokedAccessRefused ==
    /\ \A t \in Tasks :
          (call[t].op = AccessOp /\ call[t].revoked)
          => pc[t] = "access_read" /\ gw_calls[t] = 0
    /\ (done.call.op = AccessOp /\ done.call.revoked)
       => done.res /= "Ok" /\ done.gw_calls = 0

\* C6: when the gateway call of request_capability, refresh_capability or
\* access_with_capability fails, the operation returns the failure and the store is
\* as it would be had the operation not run.
C6_GatewayFailureLeavesStore ==
    (done.call.op \in {RequestOp, RefreshOp, AccessOp} /\ done.res = "Transport")
    => done.untouched /\ done.gw_calls = 1

C6_Witness ==
    /\ done.call.op = AccessOp /\ done.res = "Transport"
    /\ IsSome(capabilities[done.call.id])
    /\ HasLimits(Unwrap(capabilities[done.call.id]))

\* a request's TTL below 10 s or above 24 h, or its target empty
BadRequest(c) == c.ttl < 10 \/ c.ttl > 24 * 60 * 60 \/ c.target = ""

\* C7: request_capability called with an identity set and a TTL below 10 s, a TTL
\* above 24 h or an empty target returns InvalidFormat, having made no gateway
\* call and without changing the store.
C7_InvalidRequestRejectedLocally ==
    /\ \A t \in Tasks :
          (call[t].op = RequestOp /\ call[t].had_identity) => ~BadRequest(call[t])
    /\ (done.call.op = RequestOp /\ done.call.had_identity /\ BadRequest(done.call))
       => done.res = "InvalidFormat" /\ done.gw_calls = 0 /\ done.untouched

C7_Witness ==
    /\ done.call.op = RequestOp /\ done.call.had_identity
    /\ done.call.target = "" /\ done.res = "InvalidFormat"
    /\ \E i \in Ids : IsSome(capabilities[i])

\* a token that is expired, outside its time window or at its usage limit at t
Refusable(cap, t) ==
    \/ t > cap.expires_at
    \/ /\ IsSome(cap.context.time_window)
       /\ \/ t < Unwrap(cap.context.time_window).start
          \/ t > Unwrap(cap.context.time_window).end
          \/ /\ IsSome(Unwrap(cap.context.time_window).days_of_week)
             /\ Weekday(t) \notin Unwrap(Unwrap(cap.context.time_window).days_of_week)
    \/ /\ HasMaxUses(cap)
       /\ Limits(cap).current_uses >= Unwrap(Limits(cap).max_uses)

\* C8: access_with_capability called with a token that is expired, outside its
\* time window or at its usage limit returns a capability error, makes no gateway
\* call and leaves the store unchanged, on every call.
C8_InvalidTokenRefused ==
    /\ \A t \in Tasks :
          call[t].op = AccessOp => ~Refusable(Unwrap(call[t].cap), call[t].at)
    /\ (done.call.op = AccessOp /\ Refusable(Unwrap(done.call.cap), done.call.at))
       => /\ done.res \in {"Expired", "ScopeMismatch"}
          /\ done.gw_calls = 0
          /\ done.untouched

C8_Witness ==
    /\ done.call.op = AccessOp
    /\ done.call.at > Unwrap(done.call.cap).expires_at
    /\ done.res = "Expired"
    /\ IsSome(capabilities[done.call.id])

\* C9: for a token with no time window and no usage limits, is_valid is true at
\* every instant before expires_at and false at every instant at or after it.
C9_ExpiryMonotonic ==
    (/\ vdone
     /\ ~IsSome(Unwrap(vcap).context.time_window)
     /\ ~HasLimits(Unwrap(vcap)))
    => (vres <=> vnow < Unwrap(vcap).expires_at)

\* C10: for an unexpired token inside its time window, is_valid is false exactly
\* when usage limits are present with a max_uses and current_uses >= max_uses.
C10_UsageLimitDecides ==
    (/\ vdone
     /\ vnow <= Unwrap(vcap).expires_at
     /\ WindowOk(Unwrap(vcap), vnow))
    => (~vres <=> (/\ HasMaxUses(Unwrap(vcap))
                   /\ Limits(Unwrap(vcap)).current_uses
                         >= Unwrap(Limits(Unwrap(vcap)).max_uses)))

\* the window of a token that has one
Window(cap) == Unwrap(cap.context.time_window)
\* current_uses has reached max_uses
Exhausted(cap) ==
    HasMaxUses(cap) /\ Limits(cap).current_uses >= Unwrap(Limits(cap).max_uses)
\* the day of the week of instant t, 0 = Sunday: day 0 of the epoch was a Thursday
DayOfWeek(t) == ((t \div (24 * 60 * 60)) + 4) % 7

C10_Witness ==
    /\ vdone /\ ~vres
    /\ vnow <= Unwrap(vcap).expires_at
    /\ WindowOk(Unwrap(vcap), vnow)
    /\ HasMaxUses(Unwrap(vcap))
    /\ Limits(Unwrap(vcap)).current_uses = Unwrap(Limits(Unwrap(vcap)).max_uses)
    /\ Limits(Unwrap(vcap)).current_uses > 0

\* C11: for an unexpired token with a time window whose usage limit is not
\* reached, is_valid is true exactly when window.start <= now <= window.end and,
\* when the window lists weekdays, the weekday of now (0 = Sunday) is in the
\* list; a window without a list accepts every weekday.
C11_WindowAndWeekday ==
    (/\ vdone
     /\ vnow <= Unwrap(vcap).expires_at
     /\ IsSome(Unwrap(vcap).context.time_window)
     /\ ~Exhausted(Unwrap(vcap)))
    => (vres <=> /\ Window(Unwrap(vcap)).start <= vnow
                 /\ vnow <= Window(Unwrap(vcap)).end
                 /\ IsSome(Window(Unwrap(vcap)).days_of_week)
                       => DayOfWeek(vnow) \in Unwrap(Window(Unwrap(vcap)).days_of_week))

\* refused by the weekday filter alone, on the window's last instant, after the
\* weekday changed during the window
C11_Witness ==
    /\ vdone /\ ~vres
    /\ vnow <= Unwrap(vcap).expires_at
    /\ IsSome(Unwrap(vcap).context.time_window)
    /\ ~Exhausted(Unwrap(vcap))
    /\ vnow = Window(Unwrap(vcap)).end
    /\ Window(Unwrap(vcap)).start < vnow
    /\ IsSome(Window(Unwrap(vcap)).days_of_week)
    /\ DayOfWeek(Window(Unwrap(vcap)).start) \in Unwrap(Window(Unwrap(vcap)).days_of_week)
    /\ DayOfWeek(vnow) \notin Unwrap(Window(Unwrap(vcap)).days_of_week)

\* a constraint set that is absent or contains the value
Accepts(allowed, value) == allowed = None \/ value \in Unwrap(allowed)

\* C12: is_valid_for_context(environment, service, namespace) is true exactly
\* when the token is valid and each of its environments, services and namespaces
\* sets is absent or contains the supplied value; a present empty set rejects
\* every value.
C12_ValidForContext ==
    probe.op = "is_valid_for_context"
    => (probe.res <=> /\ ~Refusable(Unwrap(vcap), probe.at)
                      /\ Accepts(Unwrap(vcap).context.environments, probe.args[1])
                      /\ Accepts(Unwrap(vcap).context.services, probe.args[2])
                      /\ Accepts(Unwrap(vcap).context.namespaces, probe.args[3]))

\* a valid token whose only constraint is an empty set of environments is refused
C12_Witness ==
    /\ probe.op = "is_valid_for_context" /\ ~probe.res
    /\ ~Refusable(Unwrap(vcap), probe.at)
    /\ Unwrap(vcap).context.environments = Some({})
    /\ Unwrap(vcap).context.services = None
    /\ Unwrap(vcap).context.namespaces = None

\* the token as the k-th increment_usage call left it
AfterUse(k) == IF k < Len(vlog) THEN vlog[k + 1].before ELSE Unwrap(vcap)

\* C13: every increment_usage call on a token with usage limits raises
\* current_uses by exactly one and changes nothing else, and returns Ok exactly
\* when the raised value is <= max_uses (or there is no max_uses); on a token
\* without usage limits it returns Ok and changes nothing.  On a token that
\* starts at current_uses = 0 with max_uses = M, the first M calls return Ok,
\* every later call fails and after k calls current_uses = k.
C13_IncrementUsage ==
    /\ \A k \in 1..Len(vlog) :
          LET b == vlog[k].before
              a == AfterUse(k)
          IN  IF HasLimits(b)
              THEN /\ a = [b EXCEPT !.context.usage_limits =
                              Some(UsageLimits(Limits(b).max_uses,
                                               Limits(b).current_uses + 1))]
                   /\ vlog[k].ok <=> (IsSome(Limits(b).max_uses)
                                        => Limits(a).current_uses
                                              <= Unwrap(Limits(b).max_uses))
              ELSE a = b /\ vlog[k].ok
    /\ (/\ Len(vlog) > 0
        /\ HasMaxUses(vlog[1].before)
        /\ Limits(vlog[1].before).current_uses = 0)
       => /\ Limits(Unwrap(vcap)).current_uses = Len(vlog)
          /\ \A k \in 1..Len(vlog) :
                vlog[k].ok <=> k <= Unwrap(Limits(vlog[1].before).max_uses)

\* max_uses = 2: two successes, a failure on the third call, current_uses = 3
C13_Witness ==
    /\ Len(vlog) = 3
    /\ HasMaxUses(vlog[1].before)
    /\ Unwrap(Limits(vlog[1].before).max_uses) = 2
    /\ Limits(vlog[1].before).current_uses = 0
    /\ vlog[1].ok /\ vlog[2].ok /\ ~vlog[3].ok
    /\ Limits(Unwrap(vcap)).current_uses = 3

\* C14: once refresh_capability(id, new_ttl) has put the token the gateway
\* confirmed in the store, the store's entry for id carries that identifier and
\* that expires_at until the next refresh, revoke or close of id, whatever
\* access_with_capability calls run beside the refresh.
C14_RefreshedExpiryStays ==
    \A i \in Ids :
        IsSome(confirmed[i])
        => /\ IsSome(capabilities[i])
           /\ Unwrap(capabilities[i]).id = i
           /\ Unwrap(capabilities[i]).expires_at = Unwrap(confirmed[i])

\* C15: after close has cleared the store, no token minted before the clear has
\* an entry in the store again.
C15_ClosedStoreStaysEmpty ==
    \A i \in cleared : ~IsSome(capabilities[i])

\* C16: a request_capability call made after a close has returned fails, makes
\* no gateway call and adds nothing to the store.
C16_NoRequestAfterClose ==
    /\ \A t \in Tasks : ~(call[t].op = RequestOp /\ call[t].after_close)
    /\ (done.call.op = RequestOp /\ done.call.after_close)
       => done.res /= "Ok" /\ done.gw_calls = 0 /\ done.untouched

\* C17: close does not report a failure to its caller, whatever the transport's
\* close returns.
C17_CloseToleratesTransportFailure ==
    done.call.op = "close" => done.res = "Ok"

\* C18: list_capabilities returns exactly the stored tokens that are not
\* expired, not outside their window and not at their usage limit when it is
\* called, and leaves the store as it was: the others stay stored.
C18_ListValidOnly ==
    done.call.op = "list_capabilities"
    => /\ done.res = "Ok"
       /\ done.untouched
       /\ done.gw_calls = 0
       /\ done.value = {Unwrap(capabilities[i]) :
                           i \in {j \in Ids : /\ capabilities[j] /= None
                                              /\ ~Refusable(Unwrap(capabilities[j]), now)}}

\* an expired entry is left out of the result and is still stored
C18_Witness ==
    /\ done.call.op = "list_capabilities"
    /\ \E i \in Ids :
          /\ capabilities[i] /= None
          /\ now > Unwrap(capabilities[i]).expires_at
          /\ Unwrap(capabilities[i]) \notin done.value

\* an entry of the store whose expiry has passed
ExpiredEntry(i) ==
    capabilities[i] /= None /\ now > Unwrap(capabilities[i]).expires_at

\* C19: a stored token whose expiry has passed is removed from the store in the
\* end, without a revoke or a close having to come.
C19_ExpiredIsPruned ==
    \A i \in Ids : ExpiredEntry(i) ~> ~ExpiredEntry(i)

\* C20: a token value handed to a caller stays as it was handed: no step of any
\* operation changes or withdraws it, and access_with_capability counts the use
\* on the store's copy only.
C20_SnapshotsIndependent ==
    [][\A cap \in handed : cap \in handed']_vars

\* an access has counted a use on the store's copy and the caller's copy still
\* shows none
C20_Witness ==
    /\ done.call.op = AccessOp /\ done.res = "Ok"
    /\ HasLimits(Unwrap(done.call.cap))
    /\ Limits(Unwrap(done.call.cap)).current_uses = 0
    /\ Unwrap(done.call.cap) \in handed
    /\ capabilities[done.call.id] /= None
    /\ Limits(Unwrap(capabilities[done.call.id])).current_uses = 1


\* C21: CapabilityRequest::validate returns Ok exactly when the TTL is at least
\* 10 s and at most 24 h and the target is not empty; a TTL of exactly 10 s or
\* exactly 24 h is accepted, and every refusal is an InvalidFormat error.
C21_ValidateBounds ==
    probe.op = "validate" =>
        LET ttl == probe.args[1]
            target == probe.args[2]
        IN  /\ probe.res \in {"Ok", "InvalidFormat"}
            /\ probe.res = "Ok" <=>
                  (MinTtlSecs <= ttl /\ ttl <= MaxTtlSecs /\ target /= "")

\* the upper bound itself is accepted
C21_Witness ==
    /\ probe.op = "validate"
    /\ probe.args = <<MaxTtlSecs, "users">>
    /\ probe.res = "Ok"


\* C22: remaining_ttl returns Some(expires_at - now) when that difference is
\* positive and None otherwise, never Some of a zero duration; a fresh token
\* without other constraints is valid at the instant it was issued, and once
\* more than its TTL has elapsed is_valid is false and remaining_ttl is None.
C22_RemainingTtl ==
    probe.op = "remaining_ttl" =>
        LET cap == Unwrap(vcap)
            left == cap.expires_at - probe.at
        IN  /\ probe.res = (IF left > 0 THEN Some(left) ELSE None)
            /\ probe.res /= Some(0)
            /\ (vdone /\ probe.at = vnow) =>
                  /\ (vnow = cap.issued_at /\ ~Refusable(cap, vnow)) => vres
                  /\ vnow > cap.expires_at => (~vres /\ probe.res = None)

\* one second after the end of a 3 s TTL: not valid, nothing remaining
C22_Witness ==
    /\ probe.op = "remaining_ttl" /\ probe.at = vnow /\ vdone
    /\ Unwrap(vcap).expires_at = Unwrap(vcap).issued_at + ValMaxTime
    /\ vnow = Unwrap(vcap).expires_at + 1
    /\ ~vres /\ probe.res = None


\* the tokens in the store
Stored == {Unwrap(capabilities[i]) : i \in {j \in Ids : IsSome(capabilities[j])}}

\* C23: every token Capability::new returns has issued_at = now and
\* expires_at = issued_at + ttl with expires_at > issued_at, and every token in
\* the store has expires_at > issued_at.
C23_ExpiresAfterIssued ==
    /\ (probe.op = "Capability::new" /\ probe.res.kind = "Ok") =>
          /\ probe.res.cap.issued_at = probe.at
          /\ probe.res.cap.expires_at = probe.res.cap.issued_at + Unwrap(probe.args[1])
          /\ probe.res.cap.expires_at > probe.res.cap.issued_at
    /\ \A cap \in Stored : cap.expires_at > cap.issued_at

\* C24: Capability::new fails only when the TTL cannot be added to the clock
\* without overflow, the failure is an InvalidFormat error and never a panic,
\* and for every other TTL the call returns a token.
C24_OverflowIsInvalidFormat ==
    probe.op = "Capability::new" =>
        /\ probe.res.kind \in {"Ok", "InvalidFormat"}
        /\ probe.res.kind = "InvalidFormat" <=> ~IsSome(probe.args[1])


Parsed(s, names, error) ==
    IF \E k \in DOMAIN names : names[k][1] = to_lowercase(s)
    THEN [kind |-> "Ok",
          variant |-> names[CHOOSE k \in DOMAIN names : names[k][1] = to_lowercase(s)][2],
          name |-> <<>>]
    ELSE IF starts_with(to_lowercase(s), CustomPrefix)
    THEN [kind |-> "Ok", variant |-> "Custom",
          name |-> SubSeq(s, Len(CustomPrefix) + 1, Len(s))]
    ELSE [kind |-> error, variant |-> "", name |-> s]

\* C26: Domain::parse and Action::parse give the fixed variant for a fixed name
\* written in any case, Custom holding <name> exactly as written for a string
\* "custom:<name>", and InvalidDomain / InvalidAction for every other string.
C26_ParseNames ==
    /\ probe.op = "Domain::parse" =>
          probe.res = Parsed(probe.args[1], DomainNames, "InvalidDomain")
    /\ probe.op = "Action::parse" =>
          probe.res = Parsed(probe.args[1], ActionNames, "InvalidAction")


\* the errors the claim calls transport failures: a failed connection, a
\* timeout, a malformed or invalid response of the server
TransportFailures ==
    {Err("Transport", i) : i \in TransportErrors}
    \cup {Err("Timeout", ""), Err("InvalidResponse", "")}

\* the errors the claim says are never retried: authentication failure, access
\* denied, capability errors, malformed input
NotRetried ==
    {Err("AuthenticationFailed", ""), Err("AccessDenied", ""), Err("Validation", "")}
    \cup {Err("Capability", i) : i \in CapabilityErrors}

\* C27: is_retryable is true for every transport failure (connection failure,
\* timeout, malformed or invalid server response) and false for authentication
\* failure, access denied, capability errors and malformed-input errors.
C27_RetryableErrors ==
    probe.op = "is_retryable" =>
        /\ probe.args[1] \in TransportFailures => probe.res
        /\ probe.args[1] \in NotRetried => ~probe.res


\* C28: Config::validate accepts Config::default(), refuses a configuration
\* whose endpoint is empty, and refuses the mTLS transport when cert_file or
\* key_file is missing.
C28_ValidateConfig ==
    probe.op = "Config::validate" =>
        LET config == probe.args[1] IN
        /\ config = Config_default => probe.res = "Ok"
        /\ config.endpoint = <<>> => probe.res /= "Ok"
        /\ (/\ config.transport = "Mtls"
            /\ (config.auth.cert_file = None \/ config.auth.key_file = None))
           => probe.res /= "Ok"

\* the settings an environment names, as from_env reads them
EnvSets(env, config) ==
    /\ IsSome(env.VAULT_ENDPOINT) => config.endpoint = Unwrap(env.VAULT_ENDPOINT)
    /\ IsSome(env.VAULT_TRANSPORT) =>
          Some(config.transport) = Named(TransportNames, Unwrap(env.VAULT_TRANSPORT))
    /\ IsSome(env.VAULT_AUTH_METHOD) =>
          Some(config.auth.method) = Named(AuthMethodNames, Unwrap(env.VAULT_AUTH_METHOD))
    /\ IsSome(env.VAULT_TOKEN_FILE) => config.auth.token_file = env.VAULT_TOKEN_FILE
    /\ IsSome(env.VAULT_LOG_LEVEL) => config.logging.level = Unwrap(env.VAULT_LOG_LEVEL)

\* C29: after self.merge(other), endpoint, transport, auth.method and
\* logging.level are other's and each auth file path is other's whenever other
\* sets one; so the configuration load_with_file returns has the environment's
\* value for every setting the environment names.
C29_MergePrecedence ==
    /\ probe.op = "Config::merge" =>
          LET other == probe.args[2] IN
          /\ probe.res.endpoint = other.endpoint
          /\ probe.res.transport = other.transport
          /\ probe.res.auth.method = other.auth.method
          /\ probe.res.logging.level = other.logging.level
          /\ IsSome(other.auth.token_file) =>
                probe.res.auth.token_file = other.auth.token_file
          /\ IsSome(other.auth.cert_file) =>
                probe.res.auth.cert_file = other.auth.cert_file
          /\ IsSome(other.auth.key_file) =>
                probe.res.auth.key_file = other.auth.key_file
          /\ IsSome(other.auth.ca_file) =>
                probe.res.auth.ca_file = other.auth.ca_file
    /\ (probe.op = "Config::load_with_file" /\ probe.res.kind = "Ok") =>
          EnvSets(probe.args[2], probe.res.config)


\* C30: on a token with a max_uses that is neither expired nor outside a time
\* window, increment_usage returns Ok exactly when is_valid, evaluated just
\* before the call, returned true, which is exactly when current_uses <
\* max_uses: a token that passes the check can be used once more, and a token
\* that fails it cannot.
C30_UsageCheckMatchesIncrement ==
    \A k \in 1..Len(vlog) :
        (vlog[k].checked /\ HasMaxUses(vlog[k].before)) =>
            /\ vlog[k].ok <=> vlog[k].valid
            /\ vlog[k].valid <=>
                  Limits(vlog[k].before).current_uses
                      < Unwrap(Limits(vlog[k].before).max_uses)

\* max_uses = 1: the check passes and the use succeeds, then the check fails
\* and the use fails
C30_Witness ==
    /\ Len(vlog) = 2
    /\ HasMaxUses(vlog[1].before)
    /\ Unwrap(Limits(vlog[1].before).max_uses) = 1
    /\ vlog[1].checked /\ vlog[1].valid /\ vlog[1].ok
    /\ vlog[2].checked /\ ~vlog[2].valid /\ ~vlog[2].ok


\* what every request_capability and refresh_capability does when no identity
\* is set: MissingIdentity, no gateway call, the store as it was
NoIdentityRefused ==
    /\ \A t \in Tasks :
          call[t].op \in {RequestOp, RefreshOp} => call[t].had_identity
    /\ (done.call.op \in {RequestOp, RefreshOp} /\ ~done.call.had_identity)
       => done.res = "MissingIdentity" /\ done.gw_calls = 0 /\ done.untouched

\* C31: request_capability and refresh_capability called while no identity is
\* set fail with MissingIdentity, make no gateway call and leave the store
\* unchanged; get_identity returns None before any set_identity and, after
\* one, the identity most recently set.
C31_IdentityManagement ==
    /\ NoIdentityRefused
    /\ probe.op = "get_identity" => probe.res = probe.args[1]

\* C31 amended: as C31, but get_identity returns the identity most recently set
\* only until a close clears it; from then on it returns None until the next
\* set_identity.
C31_IdentityUntilClose ==
    /\ NoIdentityRefused
    /\ probe.op = "get_identity" =>
          probe.res = (IF probe.args[2] THEN None ELSE probe.args[1])

\* alice, then bob was set and a close cleared the identity: get_identity
\* answered None and a refresh of a stored token was refused
C31_Witness ==
    /\ probe.op = "get_identity"
    /\ probe.args = <<Some("bob"), TRUE>> /\ probe.res = None
    /\ done.call.op = RefreshOp /\ done.res = "MissingIdentity"
    /\ IsSome(capabilities[done.call.id])


\* C32: a successful refresh_capability does not restore spent uses: the
\* current_uses of the stored token after the refresh has put its token in the
\* store is not lower than before, so that the successful accesses of a token
\* with max_uses = N stay at most N across refreshes.
C32_RefreshKeepsUses ==
    [][\A i \in Ids :
          (/\ done'.call.op = RefreshOp /\ done'.res = "Ok" /\ done'.call.id = i
           /\ IsSome(capabilities[i])
           /\ HasMaxUses(Unwrap(capabilities[i])))
          => /\ IsSome(capabilities'[i])
             /\ HasMaxUses(Unwrap(capabilities'[i]))
             /\ Limits(Unwrap(capabilities'[i])).current_uses
                   >= Limits(Unwrap(capabilities[i])).current_uses]_vars


\* C33: when the store holds a copy of the token, a successful
\* access_with_capability is counted against the stored copy and not against
\* the caller's snapshot: the call that returns success finds the stored
\* current_uses below max_uses, and leaves it higher than it found it (an older
\* snapshot neither lowers the stored count nor regains spent uses).
C33_StoredCopyDecides ==
    [][\A i \in Ids :
          (/\ done'.call.op = AccessOp /\ done'.res = "Ok" /\ done'.call.id = i
           /\ IsSome(capabilities[i])
           /\ HasMaxUses(Unwrap(capabilities[i])))
          => /\ Limits(Unwrap(capabilities[i])).current_uses
                   < Unwrap(Limits(Unwrap(capabilities[i])).max_uses)
             /\ IsSome(capabilities'[i])
             /\ Limits(Unwrap(capabilities'[i])).current_uses
                   > Limits(Unwrap(capabilities[i])).current_uses]_vars


\* C34: in every reachable state a stored token with a max_uses has
\* current_uses <= max_uses (the gateway returning tokens within their limit),
\* and an access refused for exceeding the usage limit writes nothing to the
\* store.
C34_StoredWithinLimit ==
    /\ \A cap \in Stored :
          HasMaxUses(cap) => Limits(cap).current_uses <= Unwrap(Limits(cap).max_uses)
    /\ (done.call.op = AccessOp /\ done.res = "ScopeMismatch") => done.untouched

C34_Witness ==
    /\ done.call.op = AccessOp /\ done.res = "ScopeMismatch"
    /\ IsSome(capabilities[done.call.id])
    /\ Exhausted(Unwrap(capabilities[done.call.id]))
    /\ accepted[done.call.id] = 1


\* C35: in every reachable state each store entry is keyed by the identifier
\* of the token it holds, store[k].id = k, whatever token the gateway returns.
C35_KeyedByOwnId ==
    \A k \in Ids : IsSome(capabilities[k]) => Unwrap(capabilities[k]).id = k


\* C36: at every instant, if is_valid is true then remaining_ttl is Some: a
\* token never counts as valid while reporting no remaining lifetime, also at
\* the instant now = expires_at.
C36_ValidHasRemainingTtl ==
    (/\ probe.op = "remaining_ttl" /\ probe.at = vnow
     /\ vdone /\ vres)
    => IsSome(probe.res)


\* the locks task t holds
Held(t) == {l \in LockNames : t \in locks[l].readers \cup locks[l].writer}
\* task t's operation has a gateway call pending or still to make
GatewayAhead(t) ==
    /\ lock_pc[t] /= LockIdle
    /\ \E k \in lock_pc[t].at..Len(Program(lock_pc[t].op)) :
          Program(lock_pc[t].op)[k].k = "gateway"

\* C37: no client operation holds the store lock or the identity lock while a
\* gateway call of its own is pending, and none holds both locks at once; so
\* while an operation is under way some task can take a step (no deadlock), and
\* every operation that has no gateway call left to wait for completes.
C37_LocksNotHeldOverGateway ==
    /\ [](\A t \in Tasks :
             /\ lock_pc[t].st = "pending" => Held(t) = {}
             /\ Cardinality(Held(t)) <= 1)
    /\ []((\E t \in Tasks : lock_pc[t] /= LockIdle)
            => ENABLED (\E t \in Tasks :
                           ClientStep(t) \/ \E ok \in BOOLEAN : GatewayReturn(t, ok)))
    /\ \A t \in Tasks :
          (lock_pc[t] /= LockIdle /\ ~GatewayAhead(t)) ~> (lock_pc[t] = LockIdle)

\* one caller waits for the gateway while another, in close, holds the store
C37_Witness ==
    \E t, u \in Tasks :
        /\ lock_pc[t].st = "pending"
        /\ locks["capabilities"].writer = {u}
        /\ lock_pc[u].op = "close"


\* task t, in the step being taken, is in an operation acting on identifier i:
\* the revoke it enters, the access or refresh it is in, or the request whose
\* token it is about to cache
ActsOn(t, i) ==
    /\ pc'[t] /= pc[t]
    /\ \/ call'[t].op = "revoke_capability" /\ call'[t].id = i
       \/ call[t].op \in {AccessOp, RefreshOp} /\ call[t].id = i
       \/ /\ call[t].op = RequestOp
          /\ IsSome(local[t].capability)
          /\ pc[t] = "request_insert"
          /\ Unwrap(local[t].capability).id = i

\* C38: request_capability, access_with_capability, refresh_capability and
\* revoke_capability acting on identifier A leave the store entry of every
\* other identifier unchanged, present or absent, in every interleaving: a step
\* changes the entry of i only if it is a step of an operation acting on i.
C38_OtherEntriesUnchanged ==
    [][\A i \in Ids :
          capabilities'[i] /= capabilities[i] => \E t \in Tasks : ActsOn(t, i)]_vars

\* a revoke has returned Ok: its own entry is gone and the entry of another
\* identifier is still in the store
C38_Witness ==
    /\ done.call.op = "revoke_capability" /\ done.res = "Ok"
    /\ capabilities[done.call.id] = None
    /\ \E j \in Ids \ {done.call.id} :
          IsSome(capabilities[j]) /\ Unwrap(capabilities[j]).id = j

====
